---- MODULE Spec2Model ----
(***************************************************************************)
(* Model of the conversational intake engine of the grievance management   *)
(* system (src/src/frontend/app.py): the field extractors, the intent      *)
(* classifiers and the registration state machines that act on the         *)
(* session's UserContext.                                                  *)
(***************************************************************************)
EXTENDS Integers, Sequences, FiniteSets, TLC

\* ------------------------------------------------------------------------
\* Python strings.  A message is a TLA+ string; characters are read with
\* SubSeq, so every operator below works on the text itself.
\* ------------------------------------------------------------------------
Upper == "ABCDEFGHIJKLMNOPQRSTUVWXYZ"
LowerLetters == "abcdefghijklmnopqrstuvwxyz"
Letters == Upper \o LowerLetters
Digits == "0123456789"
Whitespace == " \t\n\r"
WordChars == Letters \o Digits \o "_"

Ch(s, i) == SubSeq(s, i, i)

InStr(c, cls) == \E i \in 1..Len(cls) : Ch(cls, i) = c

PosIn(c, cls) == CHOOSE i \in 1..Len(cls) : Ch(cls, i) = c

lowerCh(c) == IF InStr(c, Upper) THEN Ch(LowerLetters, PosIn(c, Upper)) ELSE c

upperCh(c) == IF InStr(c, LowerLetters) THEN Ch(Upper, PosIn(c, LowerLetters)) ELSE c

\* str.lower()
RECURSIVE lower(_)
lower(s) == IF s = "" THEN "" ELSE lowerCh(Ch(s, 1)) \o lower(SubSeq(s, 2, Len(s)))

\* str.upper()
RECURSIVE upper(_)
upper(s) == IF s = "" THEN "" ELSE upperCh(Ch(s, 1)) \o upper(SubSeq(s, 2, Len(s)))

\* str.capitalize(): first character upper case, the rest lower case
capitalize(s) == IF s = "" THEN "" ELSE upperCh(Ch(s, 1)) \o lower(SubSeq(s, 2, Len(s)))

\* `sub in s`
Contains(s, sub) == \E i \in 1..(Len(s) - Len(sub) + 1) : SubSeq(s, i, i + Len(sub) - 1) = sub

\* any(keyword in s for keyword in keywords)
AnyIn(keywords, s) == \E i \in 1..Len(keywords) : Contains(s, keywords[i])

\* str.strip()
RECURSIVE lstrip(_)
lstrip(s) == IF s # "" /\ InStr(Ch(s, 1), Whitespace) THEN lstrip(SubSeq(s, 2, Len(s))) ELSE s

RECURSIVE rstrip(_)
rstrip(s) == IF s # "" /\ InStr(Ch(s, Len(s)), Whitespace) THEN rstrip(SubSeq(s, 1, Len(s) - 1)) ELSE s

strip(s) == rstrip(lstrip(s))

\* str.isalpha() / str.isdigit(): non-empty and every character in the class
isalpha(s) == s # "" /\ \A i \in 1..Len(s) : InStr(Ch(s, i), Letters)

isdigit(s) == s # "" /\ \A i \in 1..Len(s) : InStr(Ch(s, i), Digits)

\* keep (keep = TRUE) or remove (keep = FALSE) the characters of a class:
\* ''.join(filter(str.isdigit, m)), re.sub(r'[^\d]', '', m), re.sub(r'[-.\s()]', '', m)
RECURSIVE FilterChars(_, _, _)
FilterChars(s, cls, keep) ==
    IF s = "" THEN ""
    ELSE (IF InStr(Ch(s, 1), cls) = keep THEN Ch(s, 1) ELSE "")
         \o FilterChars(SubSeq(s, 2, Len(s)), cls, keep)

\* str.split(): the maximal runs of non-whitespace characters
RECURSIVE SplitFrom(_, _, _)
SplitFrom(s, i, cur) ==
    IF i > Len(s) THEN (IF cur = "" THEN <<>> ELSE <<cur>>)
    ELSE IF InStr(Ch(s, i), Whitespace)
         THEN (IF cur = "" THEN <<>> ELSE <<cur>>) \o SplitFrom(s, i + 1, "")
         ELSE SplitFrom(s, i + 1, cur \o Ch(s, i))

split(s) == SplitFrom(s, 1, "")

\* ' '.join(words)
RECURSIVE join(_)
join(words) ==
    IF words = <<>> THEN ""
    ELSE IF Len(words) = 1 THEN words[1]
    ELSE words[1] \o " " \o join(Tail(words))

\* str.split(sep, 1)[1]: the text after the first occurrence of sep
AfterFirst(s, sep) ==
    LET i == CHOOSE j \in 1..(Len(s) - Len(sep) + 1) :
                 /\ SubSeq(s, j, j + Len(sep) - 1) = sep
                 /\ \A h \in 1..(j - 1) : SubSeq(s, h, h + Len(sep) - 1) # sep
    IN SubSeq(s, i + Len(sep), Len(s))

CollectingSteps == {"collecting_name", "collecting_mobile", "collecting_details"}

\* Python truthiness of an optional string: None and "" are falsy
None == "<None>"

Truthy(v) == v # None /\ v # ""

\* ------------------------------------------------------------------------
\* The regular expressions of the re module, as far as the source uses
\* them.  A pattern is a sequence of items; an item is a quantified
\* character class, an ordered alternation of literals, a quantified
\* non-capturing group, an anchor or a capture-group mark.  Matching is
\* Python's: leftmost, greedy, backtracking, alternatives in order.
\* hi = -1 stands for an unbounded quantifier.
\* ------------------------------------------------------------------------
Cls(c, lo, hi) == [k |-> "cls", c |-> c, lo |-> lo, hi |-> hi]

One(c) == Cls(c, 1, 1)

Opt(c) == Cls(c, 0, 1)

Plus(c) == Cls(c, 1, -1)

Star(c) == Cls(c, 0, -1)

\* (?:a|b|...): alts is a sequence of patterns
Alt(alts) == [k |-> "alt", alts |-> alts]

Rep(sub, lo, hi) == [k |-> "rep", sub |-> sub, lo |-> lo, hi |-> hi]

BOL == [k |-> "bol"]

EOL == [k |-> "eol"]

WB == [k |-> "wb"]

GS == [k |-> "gs"]

GE == [k |-> "ge"]

\* a literal text as a sequence of one-character items
RECURSIVE Lit(_)
Lit(t) == IF t = "" THEN <<>> ELSE <<One(Ch(t, 1))>> \o Lit(SubSeq(t, 2, Len(t)))

\* (?:lit1|lit2|...) of literal texts
AltLits(lits) == Alt([i \in 1..Len(lits) |-> Lit(lits[i])])

Sep == "-." \o Whitespace

NoMatch == [ok |-> FALSE, start |-> 0, end |-> 0, gs |-> 0, ge |-> 0]

\* character c is in class cls; with re.IGNORECASE (ic) either case counts
ClsHas(c, cls, ic) ==
    \/ InStr(c, cls)
    \/ ic /\ (InStr(lowerCh(c), cls) \/ InStr(upperCh(c), cls))

\* number of consecutive characters of class cls from pos, at most hi
RECURSIVE RunLen(_, _, _, _, _)
RunLen(s, pos, cls, ic, hi) ==
    IF hi = 0 \/ pos > Len(s) \/ ~ClsHas(Ch(s, pos), cls, ic) THEN 0
    ELSE 1 + RunLen(s, pos + 1, cls, ic, IF hi < 0 THEN hi ELSE hi - 1)

IsWordAt(s, i) == i >= 1 /\ i <= Len(s) /\ InStr(Ch(s, i), WordChars)

RECURSIVE M(_, _, _, _, _, _)
RECURSIVE TryCounts(_, _, _, _, _, _, _, _)
RECURSIVE TryAlts(_, _, _, _, _, _, _, _)

\* match the items st against s from position pos; gs, ge: the capture
\* group's bounds so far
M(st, s, pos, ic, gs, ge) ==
    IF st = <<>> THEN [ok |-> TRUE, start |-> 0, end |-> pos, gs |-> gs, ge |-> ge]
    ELSE LET it == Head(st)
             rest == Tail(st)
         IN CASE it.k = "cls" ->
                  TryCounts(rest, s, pos, ic, gs, ge, RunLen(s, pos, it.c, ic, it.hi), it.lo)
              [] it.k = "alt" -> TryAlts(it.alts, 1, rest, s, pos, ic, gs, ge)
              [] it.k = "rep" ->
                  LET more == IF it.hi # 0
                              THEN M(it.sub
                                     \o <<Rep(it.sub, it.lo - 1,
                                              IF it.hi < 0 THEN it.hi ELSE it.hi - 1)>>
                                     \o rest, s, pos, ic, gs, ge)
                              ELSE NoMatch
                  IN IF more.ok THEN more
                     ELSE IF it.lo <= 0 THEN M(rest, s, pos, ic, gs, ge) ELSE NoMatch
              [] it.k = "bol" -> IF pos = 1 THEN M(rest, s, pos, ic, gs, ge) ELSE NoMatch
              [] it.k = "eol" ->
                  IF pos = Len(s) + 1 \/ (pos = Len(s) /\ Ch(s, pos) = "\n")
                  THEN M(rest, s, pos, ic, gs, ge) ELSE NoMatch
              [] it.k = "wb" ->
                  IF IsWordAt(s, pos - 1) # IsWordAt(s, pos)
                  THEN M(rest, s, pos, ic, gs, ge) ELSE NoMatch
              [] it.k = "gs" -> M(rest, s, pos, ic, pos, ge)
              [] it.k = "ge" -> M(rest, s, pos, ic, gs, pos)

\* greedy quantifier: try n characters, then n-1, ... down to lo
TryCounts(rest, s, pos, ic, gs, ge, n, lo) ==
    IF n < lo THEN NoMatch
    ELSE LET r == M(rest, s, pos + n, ic, gs, ge)
         IN IF r.ok THEN r ELSE TryCounts(rest, s, pos, ic, gs, ge, n - 1, lo)

\* alternation, tried in the order written
TryAlts(alts, i, rest, s, pos, ic, gs, ge) ==
    IF i > Len(alts) THEN NoMatch
    ELSE LET r == M(alts[i] \o rest, s, pos, ic, gs, ge)
         IN IF r.ok THEN r ELSE TryAlts(alts, i + 1, rest, s, pos, ic, gs, ge)

\* re.match: at the start of the text
ReMatch(p, s, ic) == M(p, s, 1, ic, 0, 0)

\* the leftmost match starting at position from or later
RECURSIVE SearchFrom(_, _, _, _)
SearchFrom(p, s, ic, from) ==
    IF from > Len(s) + 1 THEN NoMatch
    ELSE LET r == M(p, s, from, ic, 0, 0)
         IN IF r.ok THEN [r EXCEPT !.start = from] ELSE SearchFrom(p, s, ic, from + 1)

\* re.search
ReSearch(p, s, ic) == SearchFrom(p, s, ic, 1)

\* match.group(1) (match.group() of a pattern without a group is written
\* with the whole pattern between GS and GE)
Group(s, r) == SubSeq(s, r.gs, r.ge - 1)

\* re.findall of a one-group pattern: group 1 of the successive
\* non-overlapping matches
RECURSIVE FindAllFrom(_, _, _, _)
FindAllFrom(p, s, ic, from) ==
    LET r == SearchFrom(p, s, ic, from)
    IN IF ~r.ok THEN <<>>
       ELSE <<Group(s, r)>> \o FindAllFrom(p, s, ic, IF r.end > r.start THEN r.end ELSE r.end + 1)

ReFindAll(p, s, ic) == FindAllFrom(p, s, ic, 1)

\* ------------------------------------------------------------------------
\* Validators (app.py 45-68)
\* ------------------------------------------------------------------------
\* r"^\+?[1-9]\d{9,14}$"
MobilePattern == <<BOL, Opt("+"), One("123456789"), Cls(Digits, 9, 14), EOL>>

validate_mobile(mobile) == ReMatch(MobilePattern, strip(mobile), FALSE).ok

NonNames == {"help", "what", "yes", "no", "ok"}

validate_name(name) ==
    LET n == strip(name)
    IN /\ ~(Len(n) < 2 \/ Len(n) > 50)
       /\ \E i \in 1..Len(n) : InStr(Ch(n, i), Letters)
       /\ lower(n) \notin NonNames

\* ------------------------------------------------------------------------
\* extract_user_info / detect_user_intent (app.py 830-920): the extractor
\* and the classifier of the turn entry point process_user_message
\* ------------------------------------------------------------------------
NameTail == <<GS, One(Letters), Cls(Letters \o Whitespace, 1, 40), GE>>

ProperWord == <<One(Upper), Plus(LowerLetters)>>

UserInfoNamePatterns == <<
    <<Alt(<<Lit("my") \o <<Plus(Whitespace)>> \o Lit("name") \o <<Plus(Whitespace)>> \o Lit("is"),
            Lit("i") \o <<Plus(Whitespace)>> \o Lit("am"),
            Lit("i'm"),
            Lit("myself")>>),
      Plus(Whitespace)>> \o NameTail,
    <<Alt(<<Lit("my") \o <<Plus(Whitespace)>> \o Lit("self"), Lit("myself")>>),
      Plus(Whitespace)>> \o NameTail,
    <<BOL, GS>> \o ProperWord \o <<Rep(<<Plus(Whitespace)>> \o ProperWord, 0, 3), GE,
      Plus(Whitespace), AltLits(<<"give", "show", "get">>)>>,
    Lit("name") \o <<Star(Whitespace), One(":="), Star(Whitespace)>> \o NameTail >>

PlusDigits == <<GS, Opt("+"), Cls(Digits, 10, 15), GE>>

UserInfoMobilePatterns == <<
    PlusDigits,
    Lit("mobile") \o <<Star(Whitespace), One(":="), Star(Whitespace)>> \o PlusDigits,
    Lit("phone") \o <<Star(Whitespace), One(":="), Star(Whitespace)>> \o PlusDigits,
    Lit("number") \o <<Star(Whitespace), One(":="), Star(Whitespace)>> \o PlusDigits >>

\* r'\b(CMP[A-Z0-9]{8,10})\b'
ComplaintIdPattern == <<WB, GS>> \o Lit("CMP") \o <<Cls(Upper \o Digits, 8, 10), GE, WB>>

\* for pattern in name_patterns: ... if len(name) >= 2: info['name'] = name; break
RECURSIVE UserInfoName(_, _)
UserInfoName(message, i) ==
    IF i > Len(UserInfoNamePatterns) THEN None
    ELSE LET r == ReSearch(UserInfoNamePatterns[i], message, TRUE)
         IN IF r.ok /\ Len(strip(Group(message, r))) >= 2
            THEN strip(Group(message, r))
            ELSE UserInfoName(message, i + 1)

\* the first match of a pattern whose digits number 10 to 15
RECURSIVE FirstDigits(_, _)
FirstDigits(matches, j) ==
    IF j > Len(matches) THEN None
    ELSE LET mobile == FilterChars(matches[j], Digits, TRUE)
         IN IF 10 <= Len(mobile) /\ Len(mobile) <= 15 THEN mobile
            ELSE FirstDigits(matches, j + 1)

RECURSIVE UserInfoMobile(_, _)
UserInfoMobile(message, i) ==
    IF i > Len(UserInfoMobilePatterns) THEN None
    ELSE LET mobile == FirstDigits(ReFindAll(UserInfoMobilePatterns[i], message, FALSE), 1)
         IN IF mobile # None THEN mobile ELSE UserInfoMobile(message, i + 1)

UserInfoComplaintId(message) ==
    LET r == ReSearch(ComplaintIdPattern, message, TRUE)
    IN IF r.ok THEN upper(Group(message, r)) ELSE None

extract_user_info(message) ==
    [name |-> UserInfoName(message, 1),
     mobile |-> UserInfoMobile(message, 1),
     complaint_id |-> UserInfoComplaintId(message)]

detect_user_intent(message, extracted_info) ==
    LET message_lower == lower(message)
    IN IF AnyIn(<<"register", "file", "submit", "new complaint", "have a complaint",
                  "want to complain", "issue", "problem", "facing", "trouble">>, message_lower)
       THEN "register_complaint"
       ELSE IF AnyIn(<<"status", "check", "update", "progress", "what happened",
                       "any news", "follow up", "track", "see my", "show my",
                       "give all record", "all complaint", "my complaints">>, message_lower)
       THEN "check_status"
       ELSE IF AnyIn(<<"all record", "all complaint", "show all", "give all",
                       "my complaints", "my records", "list all", "see all">>, message_lower)
       THEN "get_all_records"
       ELSE IF AnyIn(<<"help", "how", "what can", "guide", "instructions">>, message_lower)
       THEN "get_help"
       ELSE IF AnyIn(<<"hello", "hi", "hey", "good morning", "good afternoon">>, message_lower)
       THEN "greeting"
       ELSE IF Truthy(extracted_info.mobile) \/ Truthy(extracted_info.complaint_id)
       THEN "check_status"
       ELSE "general"

\* ------------------------------------------------------------------------
\* IntentBasedResponseSystem.extract_information (app.py 251-346)
\* ------------------------------------------------------------------------
InfoMobilePatterns == <<
    <<GS, One("+"), Cls(Digits, 1, 4), Opt(Sep), Cls(Digits, 10, 14), GE>>,
    <<GS, One("+"), Cls(Digits, 1, 4), Opt(Whitespace), Cls(Digits, 10, 14), GE>>,
    <<GS, Cls(Digits, 3, 3), Opt(Sep), Cls(Digits, 3, 3), Opt(Sep), Cls(Digits, 4, 4), GE>>,
    <<GS, Cls(Digits, 10, 15), GE>>,
    <<GS, One("("), Cls(Digits, 3, 3), One(")"), Opt(Whitespace), Cls(Digits, 3, 3), Opt(Sep),
      Cls(Digits, 4, 4), GE>> >>

\* the first match whose cleaned form is 10 to 15 digits
RECURSIVE FirstCleanMobile(_, _)
FirstCleanMobile(matches, j) ==
    IF j > Len(matches) THEN None
    ELSE LET mobile_clean == FilterChars(strip(matches[j]), Sep \o "()", FALSE)
         IN IF 10 <= Len(mobile_clean) /\ Len(mobile_clean) <= 15 /\ isdigit(mobile_clean)
            THEN mobile_clean
            ELSE FirstCleanMobile(matches, j + 1)

RECURSIVE InfoMobile(_, _)
InfoMobile(user_message, i) ==
    IF i > Len(InfoMobilePatterns) THEN None
    ELSE LET mobile == FirstCleanMobile(ReFindAll(InfoMobilePatterns[i], user_message, FALSE), 1)
         IN IF mobile # None THEN mobile ELSE InfoMobile(user_message, i + 1)

InfoComplaintIdPatterns == <<
    ComplaintIdPattern,
    <<WB, GS>> \o Lit("cmp") \o <<Cls(LowerLetters \o Digits, 8, 10), GE, WB>>,
    Lit("complaint") \o <<Plus(Whitespace), Rep(<<AltLits(<<"id", "number">>)>>, 0, 1),
                          Star(Whitespace), Opt(":"), Star(Whitespace),
                          GS, Cls(Upper \o Digits, 10, 12), GE>> >>

RECURSIVE InfoComplaintId(_, _)
InfoComplaintId(user_message, i) ==
    IF i > Len(InfoComplaintIdPatterns) THEN None
    ELSE LET r == ReSearch(InfoComplaintIdPatterns[i], user_message, TRUE)
         IN IF r.ok THEN upper(Group(user_message, r)) ELSE InfoComplaintId(user_message, i + 1)

IntroPhrases == AltLits(<<"i'm", "i am", "my name is", "name is", "call me">>)

InfoNamePatterns == <<
    <<IntroPhrases, Plus(Whitespace)>> \o NameTail,
    <<BOL, GS>> \o ProperWord \o <<Rep(<<Plus(Whitespace)>> \o ProperWord, 1, 3), GE, EOL>>,
    Lit("name:") \o <<Star(Whitespace)>> \o NameTail,
    Lit("hi") \o <<Opt(","), Plus(Whitespace), AltLits(<<"i'm", "i am">>), Plus(Whitespace)>>
        \o NameTail >>

CapitalizeAll(words) == join([i \in 1..Len(words) |-> capitalize(words[i])])

\* the whole trimmed message as a name (app.py 302-310)
WholeMessageName(original_message) ==
    LET words == split(original_message)
    IN IF /\ Len(words) <= 4
          /\ ReMatch(<<BOL, Cls(Letters \o Whitespace, 2, 40), EOL>>, original_message, FALSE).ok
          /\ \A i \in 1..Len(words) : Len(words[i]) >= 2
          /\ \A i \in 1..Len(words) : isalpha(words[i])
          /\ lower(original_message) \notin
                {"yes", "no", "ok", "okay", "sure", "hello", "hi", "help", "what", "how"}
       THEN CapitalizeAll(words)
       ELSE None

\* the introduction patterns (app.py 312-326); found: the name so far
RECURSIVE PatternName(_, _, _)
PatternName(user_message, i, found) ==
    IF i > Len(InfoNamePatterns) THEN found
    ELSE LET r == ReSearch(InfoNamePatterns[i], user_message, TRUE)
             name_words == split(strip(Group(user_message, r)))
         IN IF /\ r.ok
               /\ 1 <= Len(name_words) /\ Len(name_words) <= 4
               /\ \A w \in 1..Len(name_words) :
                     /\ 2 <= Len(name_words[w]) /\ Len(name_words[w]) <= 20
                     /\ isalpha(name_words[w])
               /\ ~\E w \in 1..Len(name_words) :
                     lower(name_words[w]) \in
                        {"help", "what", "how", "when", "where", "why", "yes", "no", "ok", "okay"}
            THEN CapitalizeAll(name_words)
            ELSE PatternName(user_message, i + 1, found)

EmailLocal == Letters \o Digits \o "._%+-"

EmailDomain == Letters \o Digits \o ".-"

EmailTail == <<GS, Plus(EmailLocal), One("@"), Plus(EmailDomain), One("."),
               Cls(Letters \o "|", 2, -1), GE>>

InfoEmailPatterns == <<
    <<WB>> \o EmailTail \o <<WB>>,
    Lit("email:") \o <<Star(Whitespace)>> \o EmailTail >>

RECURSIVE InfoEmail(_, _)
InfoEmail(user_message, i) ==
    IF i > Len(InfoEmailPatterns) THEN None
    ELSE LET r == ReSearch(InfoEmailPatterns[i], user_message, FALSE)
         IN IF r.ok THEN lower(Group(user_message, r)) ELSE InfoEmail(user_message, i + 1)

extract_information(user_message) ==
    LET message_lower == lower(user_message)
        original_message == strip(user_message)
    IN [mobile |-> InfoMobile(user_message, 1),
        complaint_id |-> InfoComplaintId(user_message, 1),
        name |-> PatternName(user_message, 1, WholeMessageName(original_message)),
        email |-> InfoEmail(user_message, 1),
        urgency |-> IF AnyIn(<<"urgent", "emergency">>, message_lower) THEN "high"
                    ELSE IF AnyIn(<<"asap", "immediately">>, message_lower) THEN "high"
                    ELSE None]

\* ------------------------------------------------------------------------
\* extract_user_details / smart_intent_detection (app.py 128-243)
\* ------------------------------------------------------------------------
DetailsMobilePatterns == <<
    <<GS, One("+"), Cls(Digits, 1, 3), Opt(Sep), Cls(Digits, 10, 14), GE>>,
    <<WB, GS, Cls(Digits, 10, 15), GE, WB>>,
    <<GS, One("("), Cls(Digits, 3, 3), One(")"), Opt(Whitespace), Cls(Digits, 3, 3), Opt(Sep),
      Cls(Digits, 4, 4), GE>> >>

RECURSIVE DetailsMobile(_, _)
DetailsMobile(message, i) ==
    IF i > Len(DetailsMobilePatterns) THEN None
    ELSE LET r == ReSearch(DetailsMobilePatterns[i], message, FALSE)
             mobile == FilterChars(Group(message, r), Sep \o "()", FALSE)
         IN IF r.ok /\ Len(mobile) >= 10 THEN mobile ELSE DetailsMobile(message, i + 1)

DetailsNamePatterns == <<
    <<AltLits(<<"my name is", "i am", "i'm", "name is", "call me">>), Plus(Whitespace),
      GS, Cls(Letters \o Whitespace, 2, 30), GE>>,
    <<BOL, GS>> \o ProperWord \o <<Rep(<<Plus(Whitespace)>> \o ProperWord, 1, -1), GE>> >>

RECURSIVE DetailsName(_, _)
DetailsName(message, i) ==
    IF i > Len(DetailsNamePatterns) THEN None
    ELSE LET r == ReSearch(DetailsNamePatterns[i], message, TRUE)
             name == strip(Group(message, r))
         IN IF r.ok /\ Len(name) >= 2 /\ isalpha(FilterChars(name, " ", FALSE))
            THEN name
            ELSE DetailsName(message, i + 1)

DetailsComplaintId(message) ==
    LET r == ReSearch(<<GS>> \o Lit("CMP") \o <<Cls(Upper \o Digits, 8, 8), GE>>,
                      upper(message), FALSE)
    IN IF r.ok THEN Group(upper(message), r) ELSE None

extract_user_details(message) ==
    [mobile |-> DetailsMobile(message, 1),
     name |-> DetailsName(message, 1),
     complaint_id |-> DetailsComplaintId(message)]

\* confidence in hundredths
smart_intent_detection(message, context) ==
    LET message_lower == lower(message)
        extracted_details == extract_user_details(message)
        Result(intent, confidence) ==
            [intent |-> intent, extracted_info |-> extracted_details, confidence |-> confidence]
    IN IF context.current_step # "initial" THEN Result("continue_registration", 90)
       ELSE IF Truthy(extracted_details.complaint_id) THEN Result("check_status_by_id", 95)
       ELSE IF Truthy(extracted_details.mobile)
               /\ AnyIn(<<"status", "check", "my complaints">>, message_lower)
       THEN Result("check_status_by_mobile", 90)
       ELSE IF AnyIn(<<"complaint", "complain", "issue", "problem", "register", "file", "report",
                       "submit", "lodge", "raise", "create", "new complaint", "have a problem",
                       "facing issue", "not working", "broken", "error", "bug", "fault">>,
                     message_lower)
       THEN Result("register_complaint", 85)
       ELSE IF AnyIn(<<"status", "check", "update", "progress", "what's", "how's", "where is",
                       "track", "follow up", "any update", "current status">>, message_lower)
       THEN Result("check_status", 80)
       ELSE IF AnyIn(<<"help", "how", "what", "guide", "instructions">>, message_lower)
       THEN Result("help", 70)
       ELSE IF AnyIn(<<"hello", "hi", "hey", "good morning", "good afternoon">>, message_lower)
       THEN Result("greeting", 70)
       ELSE Result("general", 50)

\* ------------------------------------------------------------------------
\* IntentBasedResponseSystem.determine_advanced_intent (app.py 369-410),
\* ConversationMemory.analyze_intent (app.py 2266-2288),
\* LLMHandler.categorize_complaint (core/llm_handler.py 185-203)
\* ------------------------------------------------------------------------
determine_advanced_intent(message, extracted_info, insights, context) ==
    LET message_lower == lower(message)
    IN IF AnyIn(<<"register complaint", "file complaint", "submit complaint",
                  "i have a complaint", "i want to complain", "register a complaint for me",
                  "i have some issues", "i have a problem">>, message_lower)
       THEN "register_complaint"
       ELSE IF AnyIn(<<"status", "check my complaint", "what's the update", "any progress",
                       "what happened to my complaint", "status of my complaint">>, message_lower)
               \/ Truthy(extracted_info.complaint_id)
       THEN "check_status"
       ELSE IF insights.current_intent = "register_complaint"
               /\ context.current_step \in CollectingSteps
       THEN "continue_registration"
       ELSE IF AnyIn(<<"hello", "hi", "hey", "good morning", "good afternoon", "good evening">>,
                     message_lower)
       THEN "greeting"
       ELSE IF AnyIn(<<"help", "how does this work", "guide", "instructions", "what can you do">>,
                     message_lower)
       THEN "get_help"
       ELSE IF AnyIn(<<"thank", "thanks", "bye", "goodbye", "that's all">>, message_lower)
       THEN "closing"
       ELSE "general_inquiry"

\* intent_patterns, a dict: scanned in insertion order
IntentPatterns == <<
    <<"register_complaint", <<"register", "complaint", "file", "submit", "issue", "problem", "broken">> >>,
    <<"check_status", <<"status", "check", "update", "progress", "what happened", "any news">> >>,
    <<"modify_complaint", <<"change", "update", "modify", "edit", "correct">> >>,
    <<"cancel_complaint", <<"cancel", "withdraw", "remove", "delete">> >>,
    <<"get_help", <<"help", "how", "what", "guide", "explain", "instructions">> >>,
    <<"express_frustration", <<"angry", "frustrated", "terrible", "awful", "disappointed">> >>,
    <<"express_satisfaction", <<"thank", "good", "great", "excellent", "satisfied">> >>,
    <<"request_escalation", <<"manager", "supervisor", "escalate", "higher", "urgent">> >>,
    <<"ask_timeline", <<"when", "how long", "timeline", "eta", "expected">> >>,
    <<"provide_feedback", <<"feedback", "suggestion", "improve", "better">> >> >>

RECURSIVE FirstIntent(_, _)
FirstIntent(message_lower, i) ==
    IF i > Len(IntentPatterns) THEN "general_inquiry"
    ELSE IF AnyIn(IntentPatterns[i][2], message_lower) THEN IntentPatterns[i][1]
    ELSE FirstIntent(message_lower, i + 1)

analyze_intent(message) == FirstIntent(lower(message), 1)

\* the value of the ComplaintCategory the categorizer returns
categorize_complaint(complaint_details) ==
    LET details_lower == lower(complaint_details)
    IN IF AnyIn(<<"laptop", "computer", "hardware", "mouse", "keyboard", "screen">>, details_lower)
       THEN "Hardware"
       ELSE IF AnyIn(<<"software", "application", "app", "program", "bug">>, details_lower)
       THEN "Software"
       ELSE IF AnyIn(<<"internet", "network", "wifi", "connection", "slow">>, details_lower)
       THEN "Network"
       ELSE IF AnyIn(<<"account", "login", "password", "access">>, details_lower)
       THEN "Account"
       ELSE IF AnyIn(<<"bill", "payment", "charge", "refund">>, details_lower)
       THEN "Billing"
       ELSE IF AnyIn(<<"service", "support", "help", "assistance">>, details_lower)
       THEN "Service"
       ELSE "Other"

\* ------------------------------------------------------------------------
\* extract_basic_info (app.py 500-534)
\* ------------------------------------------------------------------------
BasicMobilePatterns == <<
    PlusDigits,
    <<GS, Cls(Digits, 3, 3), Opt(Sep), Cls(Digits, 3, 3), Opt(Sep), Cls(Digits, 4, 4), GE>> >>

RECURSIVE FirstBasicMobile(_, _)
FirstBasicMobile(matches, j) ==
    IF j > Len(matches) THEN None
    ELSE LET mobile == FilterChars(matches[j], Sep, FALSE)
         IN IF 10 <= Len(mobile) /\ Len(mobile) <= 15 /\ isdigit(mobile) THEN mobile
            ELSE FirstBasicMobile(matches, j + 1)

RECURSIVE BasicMobile(_, _)
BasicMobile(user_message, i) ==
    IF i > Len(BasicMobilePatterns) THEN None
    ELSE LET mobile == FirstBasicMobile(ReFindAll(BasicMobilePatterns[i], user_message, FALSE), 1)
         IN IF mobile # None THEN mobile ELSE BasicMobile(user_message, i + 1)

BasicName(user_message) ==
    LET words == split(strip(user_message))
    IN IF /\ Len(split(user_message)) <= 3
          /\ ReMatch(<<BOL, Cls(Letters \o Whitespace, 2, 40), EOL>>, strip(user_message), FALSE).ok
          /\ \A i \in 1..Len(words) : Len(words[i]) >= 2 /\ isalpha(words[i])
          /\ strip(lower(user_message)) \notin
                {"yes", "no", "ok", "okay", "help", "hi", "hello", "what", "how"}
       THEN CapitalizeAll(words)
       ELSE None

extract_basic_info(user_message) ==
    [mobile |-> BasicMobile(user_message, 1),
     complaint_id |-> UserInfoComplaintId(user_message),
     name |-> BasicName(user_message)]

\* ------------------------------------------------------------------------
\* The session (app.py 25-35) and the turns that act on it
\* ------------------------------------------------------------------------
\* the user messages the model feeds to the entry points
Messages == {
    "I have an issue with my laptop, my name is John Smith, number is 9876543210",
    "help",
    "John Smith",
    "9876543210",
    "0123456789",
    "+919876543210",
    "I want to register a complaint",
    "I have a complaint, my name is John Smith, 9876543210, the elevator makes noise daily",
    "what is the status",
    "my screen is broken and flickering",
    "the elevator makes noise daily",
    "x",
    "12345",
    "CMP9B41CA0F",
    "check status of CMP12345678 for 9876543210",
    "hello",
    "thanks",
    "my name is John Smith and my laptop is broken",
    "1 9876543210",
    "98765432101234567890",
    "(987) 654-3210",
    "ok",
    "I have a problem with my internet connection, it is very slow",
    "My name is John Smith, I have a complaint",
    "I have a problem with CMP12345678" }

\* number of context instances a session may go through
MaxCtx == 2

EntryPoints == {"process_user_message", "IntentBasedResponseSystem.process_user_message",
                "handle_simple_registration"}

VARIABLES
    entry,          \* the turn entry point this session is wired to
    user_context,   \* st.session_state.user_context
    ctx_id,         \* identity of the UserContext instance in user_context
    api_calls,      \* ctx_id of the context of each register_complaint_api call
    llm_handler,    \* st.session_state.llm_handler is not None
    memory,         \* st.session_state.conversation_memory
    intent,         \* the intent the classifier gave to the latest message
    turn,           \* what the latest turn did
    client,         \* LLMHandler.client is not None
    llm_result,     \* the latest call of LLMHandler.extract_intent and its result
    insights_result, \* the latest result of get_contextual_insights
    rag_result,     \* the latest call of RAGSystem.find_relevant_context and its result
    complaints,     \* the rows of table complaints, in rowid order
    status_history, \* the rows of table status_history, in rowid order
    db_result,      \* the latest call of a DatabaseManager method and its result
    extract_result, \* the latest call of extract_information and its result
    messages,       \* st.session_state.messages
    active,         \* the session the running script is bound to
    parked,         \* st.session_state of every other session
    api_result,     \* the latest call of an endpoint of api_server.py and its response
    requests,       \* the POSTs of register_complaint_api, in the order they were sent
    connections     \* the database connections that are in the middle of a method

vars == <<entry, user_context, ctx_id, api_calls, llm_handler, memory, intent, turn,
          client, llm_result, insights_result, rag_result,
          complaints, status_history, db_result, extract_result, messages, active, parked,
          api_result, requests, connections>>

\* the variables of the chat session
session_vars == <<entry, user_context, ctx_id, api_calls, llm_handler, intent, turn>>

\* the variables of the API server and of its clients
server_vars == <<api_result, requests, connections>>

\* the variables of the collaborators the session's turns do not call
component_vars == <<client, llm_result, insights_result, rag_result,
                    complaints, status_history, db_result, extract_result, server_vars>>

\* the session's message list and the sessions of the server
streamlit_vars == <<messages, active, parked>>

\* the variables of the database
db_vars == <<complaints, status_history, db_result>>

\* no call made yet
NoResult == [called |-> FALSE]

\* DatabaseManager.init_database (database.py 19-57) on a new file: both
\* tables exist and are empty
DatabaseIdle ==
    /\ complaints = <<>>
    /\ status_history = <<>>
    /\ db_result = NoResult

\* the connections of the processes that call DatabaseManager concurrently
Connections == {1, 2}

\* a connection that runs no method: pc is the statement the method on the
\* connection executes next, old_status the row read by the SELECT,
\* rowcount cursor.rowcount, and tx_complaints and tx_history the tables as
\* the connection's open transaction has written them
IdleConnection ==
    [pc |-> "idle", complaint_id |-> "<None>", new_status |-> "<None>",
     old_status |-> "<None>", rowcount |-> 0, tx_complaints |-> <<>>,
     tx_history |-> <<>>]

\* the API server has answered nothing, no POST was sent, and no
\* connection is open
ServerIdle ==
    /\ api_result = NoResult
    /\ requests = <<>>
    /\ connections = [c \in Connections |-> IdleConnection]

\* a server with one session, whose message list is new (app.py 26-27)
OneSession ==
    /\ messages = <<>>
    /\ active = 1
    /\ parked = <<>>

\* UserContext(): models/models.py
UserContext == [name |-> None, mobile |-> None, complaint_details |-> None,
                current_step |-> "initial"]

NoCall == [name |-> None, mobile |-> None, complaint_details |-> None, category |-> None]

NoTurn == [op |-> "none", msg |-> "", outcome |-> "none", steps |-> <<>>, call |-> NoCall]

\* ConversationMemory.__init__ (app.py 2197-2228): the part the turns read
ConversationMemory == [current_intent |-> None]

Init ==
    /\ entry \in EntryPoints
    /\ user_context = UserContext
    /\ ctx_id = 0
    /\ api_calls = <<>>
    /\ llm_handler \in BOOLEAN
    /\ memory = ConversationMemory
    /\ intent = None
    /\ turn = NoTurn
    /\ client = FALSE
    /\ llm_result = NoResult
    /\ insights_result = NoResult
    /\ rag_result = NoResult
    /\ DatabaseIdle
    /\ ServerIdle
    /\ extract_result = NoResult
    /\ OneSession

\* the turn's record: the handler that ended it, the message, the outcome,
\* the values assigned to current_step during the turn, in order, and the
\* arguments of the register_complaint_api call the turn made, if any
EndTurn(op, msg, outcome, steps, call) ==
    turn' = [op |-> op, msg |-> msg, outcome |-> outcome, steps |-> steps, call |-> call]

\* st.session_state.user_context = UserContext()
Reset == user_context' = UserContext /\ ctx_id' = ctx_id + 1

\* the context object stays in the session, with the handler's assignments
Keep(context) == user_context' = context /\ ctx_id' = ctx_id

\* register_complaint_api(context.name, context.mobile,
\* context.complaint_details, category) (app.py 70-92): an HTTP call that
\* returns success or failure and never raises
register_complaint_api(context, category) ==
    /\ ctx_id < MaxCtx
    /\ api_calls' = Append(api_calls, ctx_id)

CallArgs(context, category) ==
    [name |-> context.name, mobile |-> context.mobile,
     complaint_details |-> context.complaint_details, category |-> category]

\* a turn that changes the context in place and calls nothing
Update(context, op, msg, outcome, steps) ==
    /\ Keep(context)
    /\ EndTurn(op, msg, outcome, steps, NoCall)
    /\ UNCHANGED api_calls

\* ------------------------------------------------------------------------
\* Results of the pure functions on the texts of the model, computed once
\* ------------------------------------------------------------------------
Texts == Messages \cup {strip(m) : m \in Messages}

StripOf == [t \in Texts |-> strip(t)]

DigitsOf == [t \in Texts |-> FilterChars(t, Digits, TRUE)]

UserInfo == [t \in Texts |-> extract_user_info(t)]

UserIntent == [t \in Texts |-> detect_user_intent(t, UserInfo[t])]

Info == [t \in Texts |-> extract_information(t)]

MemoryIntent == [t \in Texts |-> analyze_intent(t)]

Category == [t \in Texts |-> categorize_complaint(t)]

BasicInfo == [t \in Texts |-> extract_basic_info(t)]

NameValid == [n \in Texts \cup {Info[t].name : t \in Texts} |-> validate_name(n)]

MobileValid == [n \in Texts \cup {Info[t].mobile : t \in Texts} |-> validate_mobile(n)]

\* ------------------------------------------------------------------------
\* The flow of process_user_message (app.py 812-828)
\* ------------------------------------------------------------------------
\* register_final_complaint without the reset of its failure branch
register_final_complaint_keep_on_failure(context, msg) ==
    /\ register_complaint_api(context, "Other")
    /\ \E success \in BOOLEAN :
          /\ IF success THEN Reset ELSE Keep(context)
          /\ EndTurn("register_final_complaint", msg,
                     IF success THEN "success" ELSE "failure", <<>>,
                     CallArgs(context, "Other"))

\* register_final_complaint (app.py 1372-1408)
register_final_complaint(context, msg) ==
    /\ register_complaint_api(context, "Other")
    /\ \E success \in BOOLEAN :
          /\ IF success THEN Reset ELSE Reset
          /\ EndTurn("register_final_complaint", msg,
                     IF success THEN "success" ELSE "failure", <<>>,
                     CallArgs(context, "Other"))

\* the name branch storing the name without moving to the mobile prompt
registration_step_name_keep_step(message) ==
    IF Len(message) >= 2
    THEN Update([user_context EXCEPT !.name = message],
                "handle_registration_step", message, "prompt", <<>>)
    ELSE Update(user_context, "handle_registration_step", message, "rejected", <<>>)

\* handle_registration_step (app.py 1288-1327), one definition per branch
registration_step_name(message) ==
    IF Len(message) >= 2
    THEN Update([user_context EXCEPT !.name = message, !.current_step = "collecting_mobile"],
                "handle_registration_step", message, "prompt", <<"collecting_mobile">>)
    ELSE Update(user_context, "handle_registration_step", message, "rejected", <<>>)

\* the mobile branch sending a rejected input back to the name prompt
registration_step_mobile_regress(message) ==
    LET mobile == DigitsOf[message]
    IN IF Len(mobile) >= 10
       THEN Update([user_context EXCEPT !.mobile = mobile, !.current_step = "collecting_details"],
                   "handle_registration_step", message, "prompt", <<"collecting_details">>)
       ELSE Update([user_context EXCEPT !.current_step = "collecting_name"],
                   "handle_registration_step", message, "rejected", <<"collecting_name">>)

registration_step_mobile(message) ==
    LET mobile == DigitsOf[message]
    IN IF Len(mobile) >= 10
       THEN Update([user_context EXCEPT !.mobile = mobile, !.current_step = "collecting_details"],
                   "handle_registration_step", message, "prompt", <<"collecting_details">>)
       ELSE Update(user_context, "handle_registration_step", message, "rejected", <<>>)

registration_step_details(message) ==
    IF Len(message) >= 10
    THEN register_final_complaint([user_context EXCEPT !.complaint_details = message], message)
    ELSE Update(user_context, "handle_registration_step", message, "rejected", <<>>)

handle_registration_step(message) ==
    CASE user_context.current_step = "collecting_name" -> registration_step_name(message)
      [] user_context.current_step = "collecting_mobile" -> registration_step_mobile(message)
      [] user_context.current_step = "collecting_details" -> registration_step_details(message)
      [] OTHER -> Update(user_context, "handle_registration_step", message, "reply", <<>>)

\* handle_complaint_registration_intent (app.py 948-966)
handle_complaint_registration_intent(message, extracted_info) ==
    IF Truthy(extracted_info.name)
    THEN Update([user_context EXCEPT !.name = extracted_info.name,
                                     !.current_step = "collecting_mobile"],
                "handle_complaint_registration_intent", message, "prompt",
                <<"collecting_mobile">>)
    ELSE Update([user_context EXCEPT !.current_step = "collecting_name"],
                "handle_complaint_registration_intent", message, "prompt",
                <<"collecting_name">>)

\* handle_intelligent_question (app.py 922-946); the handlers of the other
\* intents (968-1120) answer without touching the context
handle_intelligent_question(message) ==
    LET extracted_info == UserInfo[message]
    IN /\ intent' = UserIntent[message]
       /\ IF intent' = "register_complaint"
          THEN handle_complaint_registration_intent(message, extracted_info)
          ELSE Update(user_context, "handle_intelligent_question", message, "reply", <<>>)

\* process_user_message (app.py 812-828)
process_user_message(user_message) ==
    LET message == StripOf[user_message]
    IN /\ entry = "process_user_message"
       /\ IF user_context.current_step \in CollectingSteps
          THEN handle_registration_step(message) /\ intent' = None
          ELSE handle_intelligent_question(message)
       /\ UNCHANGED <<entry, llm_handler, memory>>
       /\ UNCHANGED component_vars

\* ------------------------------------------------------------------------
\* The flow of IntentBasedResponseSystem.process_user_message (app.py 348-367)
\* ------------------------------------------------------------------------
\* process_complaint_registration without the reset of its failure branch
process_complaint_registration_keep_on_failure(context, user_message, steps) ==
    LET processing == [context EXCEPT !.current_step = "processing"]
        category_value == IF llm_handler THEN Category[processing.complaint_details]
                          ELSE "Other"
    IN /\ register_complaint_api(processing, category_value)
       /\ \E success \in BOOLEAN :
             /\ IF success THEN Reset ELSE Keep(processing)
             /\ EndTurn("process_complaint_registration", user_message,
                        IF success THEN "success" ELSE "failure",
                        steps \o <<"processing">>, CallArgs(processing, category_value))

\* process_complaint_registration (app.py 1599-1666); steps: the values
\* current_step took earlier in the turn
process_complaint_registration(context, user_message, steps) ==
    LET processing == [context EXCEPT !.current_step = "processing"]
        category_value == IF llm_handler THEN Category[processing.complaint_details]
                          ELSE "Other"
    IN /\ register_complaint_api(processing, category_value)
       /\ \E success \in BOOLEAN :
             /\ IF success THEN Reset ELSE Reset
             /\ EndTurn("process_complaint_registration", user_message,
                        IF success THEN "success" ELSE "failure",
                        steps \o <<"processing">>, CallArgs(processing, category_value))

\* handle_step_by_step_collection (app.py 1538-1597), one definition per branch
collection_step_name(user_message, context, extracted_info) ==
    LET name == IF Truthy(extracted_info.name) THEN extracted_info.name ELSE StripOf[user_message]
        named == [context EXCEPT !.name = name]
    IN IF NameValid[name]
       THEN IF ~Truthy(named.mobile)
            THEN Update([named EXCEPT !.current_step = "collecting_mobile"],
                        "handle_step_by_step_collection", user_message, "prompt",
                        <<"collecting_mobile">>)
            ELSE IF ~Truthy(named.complaint_details)
            THEN Update([named EXCEPT !.current_step = "collecting_details"],
                        "handle_step_by_step_collection", user_message, "prompt",
                        <<"collecting_details">>)
            ELSE process_complaint_registration(named, user_message, <<>>)
       ELSE Update(context, "handle_step_by_step_collection", user_message, "rejected", <<>>)

\* the mobile step sending a rejected input back to the name prompt
collection_step_mobile_regress(user_message, context, extracted_info) ==
    LET mobile == IF Truthy(extracted_info.mobile) THEN extracted_info.mobile
                  ELSE StripOf[user_message]
        with_mobile == [context EXCEPT !.mobile = mobile]
    IN IF MobileValid[mobile]
       THEN IF ~Truthy(with_mobile.complaint_details)
            THEN Update([with_mobile EXCEPT !.current_step = "collecting_details"],
                        "handle_step_by_step_collection", user_message, "prompt",
                        <<"collecting_details">>)
            ELSE process_complaint_registration(with_mobile, user_message, <<>>)
       ELSE Update([context EXCEPT !.current_step = "collecting_name"],
                   "handle_step_by_step_collection", user_message, "rejected",
                   <<"collecting_name">>)

collection_step_mobile(user_message, context, extracted_info) ==
    LET mobile == IF Truthy(extracted_info.mobile) THEN extracted_info.mobile
                  ELSE StripOf[user_message]
        with_mobile == [context EXCEPT !.mobile = mobile]
    IN IF MobileValid[mobile]
       THEN IF ~Truthy(with_mobile.complaint_details)
            THEN Update([with_mobile EXCEPT !.current_step = "collecting_details"],
                        "handle_step_by_step_collection", user_message, "prompt",
                        <<"collecting_details">>)
            ELSE process_complaint_registration(with_mobile, user_message, <<>>)
       ELSE Update(context, "handle_step_by_step_collection", user_message, "rejected", <<>>)

collection_step_details(user_message, context, extracted_info) ==
    IF Len(StripOf[user_message]) < 10
    THEN Update(context, "handle_step_by_step_collection", user_message, "rejected", <<>>)
    ELSE process_complaint_registration(
             [context EXCEPT !.complaint_details = StripOf[user_message]], user_message, <<>>)

handle_step_by_step_collection(user_message, context, extracted_info) ==
    CASE context.current_step = "collecting_name" ->
             collection_step_name(user_message, context, extracted_info)
      [] context.current_step = "collecting_mobile" ->
             collection_step_mobile(user_message, context, extracted_info)
      [] context.current_step = "collecting_details" ->
             collection_step_details(user_message, context, extracted_info)
      [] OTHER -> Update(context, "handle_step_by_step_collection", user_message, "reply", <<>>)

\* the message reads as a complaint description (app.py 1461-1485)
describes_complaint(user_message) ==
    LET message_lower == lower(user_message)
        complaint_indicators ==
            <<"issue with", "problem with", "not working", "broken", "error", "bug",
              "complaint about", "issue is", "problem is", "facing", "having trouble">>
        complaint_words ==
            <<"laptop", "computer", "screen", "keyboard", "mouse", "software", "application",
              "internet", "network", "wifi", "slow", "crash", "freeze", "hang",
              "login", "password", "account", "access", "bill", "charge", "payment">>
    IN \/ \E i \in 1..Len(complaint_indicators) :
             /\ Contains(message_lower, complaint_indicators[i])
             /\ Len(strip(AfterFirst(message_lower, complaint_indicators[i]))) > 10
       \/ Len(strip(user_message)) > 20 /\ AnyIn(complaint_words, message_lower)

DescribesComplaint == [t \in Texts |-> describes_complaint(t)]

\* the opportunistic merge of handle_smart_registration (app.py 1453-1485)
merge_extracted(user_message, context, extracted_info) ==
    LET named == IF Truthy(extracted_info.name) /\ ~Truthy(context.name)
                 THEN [context EXCEPT !.name = extracted_info.name] ELSE context
        with_mobile == IF Truthy(extracted_info.mobile) /\ ~Truthy(named.mobile)
                       THEN [named EXCEPT !.mobile = extracted_info.mobile] ELSE named
    IN IF /\ ~Truthy(with_mobile.complaint_details)
          /\ with_mobile.current_step \in {"initial", "collecting_details"}
          /\ DescribesComplaint[user_message]
       THEN [with_mobile EXCEPT !.complaint_details = StripOf[user_message]]
       ELSE with_mobile

\* the first missing slot looked up in the reverse order
first_missing_step_details_first(context) ==
    IF ~Truthy(context.complaint_details) THEN "collecting_details"
    ELSE IF ~Truthy(context.mobile) THEN "collecting_mobile"
    ELSE "collecting_name"

\* the collecting state of the first missing slot (app.py 1525-1531)
first_missing_step(context) ==
    IF ~Truthy(context.name) THEN "collecting_name"
    ELSE IF ~Truthy(context.mobile) THEN "collecting_mobile"
    ELSE "collecting_details"

\* handle_smart_registration without the assignment of the first missing
\* slot's state
handle_smart_registration_no_slot_state(user_message, context, extracted_info) ==
    LET merged == merge_extracted(user_message, context, extracted_info)
        complete == Truthy(merged.name) /\ Truthy(merged.mobile)
                    /\ Truthy(merged.complaint_details)
    IN IF complete
       THEN process_complaint_registration(merged, user_message, <<>>)
       ELSE IF merged.current_step = "initial"
       THEN Update([merged EXCEPT !.current_step = "collecting_info"],
                   "handle_smart_registration", user_message, "prompt",
                   <<"collecting_info">>)
       ELSE handle_step_by_step_collection(user_message, merged, extracted_info)

\* handle_smart_registration (app.py 1450-1536)
handle_smart_registration(user_message, context, extracted_info) ==
    LET merged == merge_extracted(user_message, context, extracted_info)
        complete == Truthy(merged.name) /\ Truthy(merged.mobile)
                    /\ Truthy(merged.complaint_details)
    IN IF complete
       THEN process_complaint_registration(merged, user_message, <<>>)
       ELSE IF merged.current_step = "initial"
       THEN Update([merged EXCEPT !.current_step = first_missing_step(merged)],
                   "handle_smart_registration", user_message, "prompt",
                   <<"collecting_info", first_missing_step(merged)>>)
       ELSE handle_step_by_step_collection(user_message, merged, extracted_info)

\* the intents and steps determine_advanced_intent is asked about
MemoryIntents == {None, "general_inquiry"} \cup {IntentPatterns[i][1] : i \in 1..Len(IntentPatterns)}

Steps == {"initial", "collecting_info", "processing"} \cup CollectingSteps

AdvancedIntent ==
    [t \in Texts |-> [ci \in MemoryIntents |-> [step \in Steps |->
        determine_advanced_intent(t, Info[t], [current_intent |-> ci], [current_step |-> step])]]]

\* generate_contextual_response (app.py 412-435); the status, greeting, help,
\* closing and general handlers (460-495) answer without touching the context
generate_contextual_response(message, context, extracted_info) ==
    IF intent' \in {"register_complaint", "continue_registration"}
    THEN handle_smart_registration(message, context, extracted_info)
    ELSE Update(context, "generate_contextual_response", message, "reply", <<>>)

\* ConversationMemory.update_memory (app.py 2230-2264): the current intent
update_memory(user_message) ==
    memory' = [memory EXCEPT !.current_intent = MemoryIntent[user_message]]

\* IntentBasedResponseSystem.process_user_message (app.py 348-367)
intent_system_process_user_message(user_message) ==
    LET context == user_context
        extracted_info == Info[user_message]
        insights == memory
    IN /\ entry = "IntentBasedResponseSystem.process_user_message"
       /\ intent' = AdvancedIntent[user_message][insights.current_intent][context.current_step]
       /\ generate_contextual_response(user_message, context, extracted_info)
       /\ update_memory(user_message)
       /\ UNCHANGED <<entry, llm_handler>>
       /\ UNCHANGED component_vars

\* ------------------------------------------------------------------------
\* The flow of handle_simple_registration (app.py 559-634)
\* ------------------------------------------------------------------------
\* process_final_registration (app.py 636-673)
process_final_registration(context, msg) ==
    /\ register_complaint_api(context, "Other")
    /\ \E success \in BOOLEAN :
          /\ IF success THEN Reset ELSE Reset
          /\ EndTurn("process_final_registration", msg,
                     IF success THEN "success" ELSE "failure", <<>>,
                     CallArgs(context, "Other"))

\* the end of handle_simple_registration (app.py 624-634)
simple_registration_tail(user_message, context) ==
    IF Truthy(context.name) /\ Truthy(context.mobile) /\ Truthy(context.complaint_details)
    THEN process_final_registration(context, user_message)
    ELSE Update([context EXCEPT !.current_step = "collecting_name"],
                "handle_simple_registration", user_message, "prompt", <<"collecting_name">>)

\* step 1, the name (app.py 569-596)
simple_step_name(user_message, context) ==
    LET name == StripOf[user_message]
    IN IF context.current_step = "initial"
       THEN Update([context EXCEPT !.current_step = "collecting_name"],
                   "handle_simple_registration", user_message, "prompt", <<"collecting_name">>)
       ELSE IF context.current_step = "collecting_name"
       THEN IF NameValid[name]
            THEN Update([context EXCEPT !.name = name, !.current_step = "collecting_mobile"],
                        "handle_simple_registration", user_message, "prompt",
                        <<"collecting_mobile">>)
            ELSE Update(context, "handle_simple_registration", user_message, "rejected", <<>>)
       ELSE simple_registration_tail(user_message, context)

\* step 2, the mobile number (app.py 599-611)
simple_step_mobile(user_message, context) ==
    LET mobile == StripOf[user_message]
    IN IF context.current_step = "collecting_mobile"
       THEN IF MobileValid[mobile]
            THEN Update([context EXCEPT !.mobile = mobile, !.current_step = "collecting_details"],
                        "handle_simple_registration", user_message, "prompt",
                        <<"collecting_details">>)
            ELSE Update(context, "handle_simple_registration", user_message, "rejected", <<>>)
       ELSE simple_registration_tail(user_message, context)

\* step 3, the complaint details (app.py 614-622)
simple_step_details(user_message, context) ==
    IF context.current_step = "collecting_details"
    THEN IF Len(StripOf[user_message]) < 10
         THEN Update(context, "handle_simple_registration", user_message, "rejected", <<>>)
         ELSE process_final_registration(
                  [context EXCEPT !.complaint_details = StripOf[user_message]], user_message)
    ELSE simple_registration_tail(user_message, context)

\* an extraction result with nothing in it
NothingExtracted == [name |-> None, mobile |-> None, complaint_id |-> None]

\* handle_simple_registration (app.py 559-634); its caller passes the
\* extracted information: the result of extract_basic_info on the message,
\* or nothing
handle_simple_registration(user_message) ==
    \E extracted_info \in {BasicInfo[user_message], NothingExtracted} :
        LET named == IF Truthy(extracted_info.name) /\ ~Truthy(user_context.name)
                     THEN [user_context EXCEPT !.name = extracted_info.name] ELSE user_context
            context == IF Truthy(extracted_info.mobile) /\ ~Truthy(named.mobile)
                       THEN [named EXCEPT !.mobile = extracted_info.mobile] ELSE named
        IN /\ entry = "handle_simple_registration"
           /\ IF ~Truthy(context.name) THEN simple_step_name(user_message, context)
              ELSE IF ~Truthy(context.mobile) THEN simple_step_mobile(user_message, context)
              ELSE IF ~Truthy(context.complaint_details)
              THEN simple_step_details(user_message, context)
              ELSE simple_registration_tail(user_message, context)
           /\ intent' = None
           /\ UNCHANGED <<entry, llm_handler, memory>>
           /\ UNCHANGED component_vars

\* the Clear Chat button (app.py 2842-2845)
ClearChat ==
    /\ ctx_id < MaxCtx
    /\ Reset
    /\ EndTurn("clear_chat", "", "cleared", <<>>, NoCall)
    /\ intent' = None
    /\ messages' = <<>>
    /\ UNCHANGED <<entry, api_calls, llm_handler, memory, active, parked>>
    /\ UNCHANGED component_vars

Next ==
    \/ \E m \in Messages : process_user_message(m) /\ UNCHANGED streamlit_vars
    \/ \E m \in Messages : intent_system_process_user_message(m) /\ UNCHANGED streamlit_vars
    \/ \E m \in Messages : handle_simple_registration(m) /\ UNCHANGED streamlit_vars
    \/ ClearChat

Spec == Init /\ [][Next]_vars

\* ------------------------------------------------------------------------
\* LLMHandler (core/llm_handler.py)
\* ------------------------------------------------------------------------
\* the intents of the system prompt of extract_intent (llm_handler.py 30-34)
LLMIntents == {"register_complaint", "check_status", "provide_info", "general"}

\* a key that a dict does not have reads as None
NoInfo == [kind |-> "absent", mobile |-> None, name |-> None]

NoValue == [kind |-> "absent", intent |-> None, extracted_info |-> NoInfo, confidence |-> None]

\* contents the completion may carry
ContentStatus == "{\"intent\": \"check_status\", \"extracted_info\": {}, \"confidence\": 0.9}"

ContentEscalate == "{\"intent\": \"escalate\", \"extracted_info\": {}, \"confidence\": 0.9}"

ContentInfoString == "{\"intent\": \"general\", \"extracted_info\": \"none\", \"confidence\": 0.5}"

ContentList == "[]"

ContentProse == "The user wants to register a complaint."

OracleContents == {ContentStatus, ContentEscalate, ContentInfoString, ContentList,
                   ContentProse, "", None}

\* client.chat.completions.create raises, or answers with a content
OracleOutcomes ==
    {[raises |-> TRUE, content |-> None]}
    \cup {[raises |-> FALSE, content |-> c] : c \in OracleContents}

\* json.loads on the contents above: the parsed value, JSONDecodeError for
\* a text that is not JSON, TypeError for None
json_loads(content) ==
    CASE content = ContentStatus ->
             [ok |-> TRUE, error |-> None,
              value |-> [kind |-> "dict", intent |-> "check_status",
                         extracted_info |-> [NoInfo EXCEPT !.kind = "dict"],
                         confidence |-> "0.9"]]
      [] content = ContentEscalate ->
             [ok |-> TRUE, error |-> None,
              value |-> [kind |-> "dict", intent |-> "escalate",
                         extracted_info |-> [NoInfo EXCEPT !.kind = "dict"],
                         confidence |-> "0.9"]]
      [] content = ContentInfoString ->
             [ok |-> TRUE, error |-> None,
              value |-> [kind |-> "dict", intent |-> "general",
                         extracted_info |-> [NoInfo EXCEPT !.kind = "str"],
                         confidence |-> "0.5"]]
      [] content = ContentList ->
             [ok |-> TRUE, error |-> None, value |-> [NoValue EXCEPT !.kind = "list"]]
      [] content = None ->
             [ok |-> FALSE, error |-> "TypeError", value |-> NoValue]
      [] OTHER ->
             [ok |-> FALSE, error |-> "JSONDecodeError", value |-> NoValue]

\* LLMHandler._fallback_intent_detection (llm_handler.py 78-113)
fallback_intent_detection(user_message, context) ==
    LET message_lower == lower(user_message)
        register_keywords == <<"complaint", "complain", "issue", "problem", "register",
                               "file", "report">>
        status_keywords == <<"status", "check", "update", "progress", "what's", "how's">>
        mobile_match == ReSearch(PlusDigits, user_message, FALSE)
        rule_intent ==
            IF context.current_step \in CollectingSteps THEN "provide_info"
            ELSE IF AnyIn(register_keywords, message_lower) THEN "register_complaint"
            ELSE IF AnyIn(status_keywords, message_lower) THEN "check_status"
            ELSE "general"
    IN [kind |-> "dict",
        intent |-> rule_intent,
        extracted_info |->
            [kind |-> "dict",
             mobile |-> IF mobile_match.ok THEN Group(user_message, mobile_match) ELSE None,
             name |-> IF context.current_step = "collecting_name" THEN strip(user_message)
                      ELSE None],
        confidence |-> "0.7"]

FallbackIntent ==
    [t \in Texts |-> [step \in Steps |->
        fallback_intent_detection(t, [current_step |-> step])]]

\* the value LLMHandler.extract_intent returns (llm_handler.py 24-76)
extract_intent_value(user_message, context, outcome) ==
    IF ~client THEN FallbackIntent[user_message][context.current_step]
    ELSE IF outcome.raises THEN FallbackIntent[user_message][context.current_step]
    ELSE IF json_loads(outcome.content).ok THEN json_loads(outcome.content).value
    ELSE FallbackIntent[user_message][context.current_step]

\* LLMHandler.extract_intent (llm_handler.py 24-76): every exception of the
\* call and of the parse is caught
extract_intent(user_message, context, outcome) ==
    /\ llm_result' = [called |-> TRUE, user_message |-> user_message,
                      current_step |-> context.current_step, outcome |-> outcome,
                      raised |-> FALSE,
                      value |-> extract_intent_value(user_message, context, outcome)]
    /\ UNCHANGED <<session_vars, memory, client, insights_result, rag_result, db_vars, server_vars, extract_result, streamlit_vars>>

\* the session before its first turn
SessionIdle ==
    /\ entry = "process_user_message"
    /\ user_context = UserContext
    /\ ctx_id = 0
    /\ api_calls = <<>>
    /\ llm_handler = TRUE
    /\ intent = None
    /\ turn = NoTurn

\* LLMHandler.__init__ (llm_handler.py 10-22): the client exists when the
\* API key is configured and the constructor of the client does not raise
InitLLM ==
    /\ SessionIdle
    /\ memory = ConversationMemory
    /\ client \in BOOLEAN
    /\ llm_result = NoResult
    /\ insights_result = NoResult
    /\ rag_result = NoResult
    /\ DatabaseIdle
    /\ ServerIdle
    /\ extract_result = NoResult
    /\ OneSession

NextLLM ==
    \E m \in Messages, step \in Steps, outcome \in OracleOutcomes :
        extract_intent(m, [current_step |-> step], outcome)

SpecLLM == InitLLM /\ [][NextLLM]_vars

\* ------------------------------------------------------------------------
\* ConversationMemory (app.py 2194-2348)
\* ------------------------------------------------------------------------
\* number of update_memory calls a session goes through
MaxTurns == 6

\* the size of the turn window (app.py 2256)
StackLimit == 5

\* the part of ConversationMemory.__init__ (app.py 2197-2228) that
\* update_memory and get_contextual_insights read back
NewConversationMemory ==
    [user_profile |-> [name |-> None, mobile |-> None],
     current_intent |-> None,
     previous_intents |-> <<>>,
     context_stack |-> <<>>,
     total_messages |-> 0,
     sentiment_history |-> <<>>,
     complaint_categories |-> <<>>,
     mentioned_entities |-> {}]

\* ConversationMemory.analyze_sentiment (app.py 2290-2305)
analyze_sentiment(message) ==
    LET message_lower == lower(message)
        positive_words == <<"thank", "good", "great", "excellent", "satisfied", "happy",
                            "pleased">>
        negative_words == <<"angry", "frustrated", "terrible", "awful", "disappointed",
                            "upset", "bad">>
        urgent_words == <<"urgent", "emergency", "asap", "immediately", "critical", "serious">>
    IN IF AnyIn(urgent_words, message_lower) THEN "urgent"
       ELSE IF AnyIn(negative_words, message_lower) THEN "negative"
       ELSE IF AnyIn(positive_words, message_lower) THEN "positive"
       ELSE "neutral"

Sentiment == [t \in Texts |-> analyze_sentiment(t)]

SentimentLabels == {"urgent", "negative", "positive", "neutral"}

\* tech_categories of update_smart_context (app.py 2312-2318), in the order
\* of the dict
smart_tech_categories ==
    << <<"hardware", <<"laptop", "computer", "screen", "keyboard", "mouse", "printer",
                       "monitor">> >>,
       <<"software", <<"application", "program", "software", "app", "system", "windows",
                       "browser">> >>,
       <<"network", <<"internet", "wifi", "connection", "network", "email", "website",
                      "server">> >>,
       <<"billing", <<"bill", "charge", "payment", "invoice", "account", "subscription",
                      "refund">> >>,
       <<"service", <<"support", "service", "help", "assistance", "response", "agent">> >> >>

\* the categories of a table with a term in the text, in the table's order
categories_in(tech_categories, text_lower) ==
    LET hit == SelectSeq(tech_categories, LAMBDA row : AnyIn(row[2], text_lower))
    IN [i \in DOMAIN hit |-> hit[i][1]]

\* "if category not in list: list.append(category)" for each category in turn
append_missing(list, categories) ==
    list \o SelectSeq(categories, LAMBDA c : \A i \in DOMAIN list : list[i] # c)

SmartCategories == [t \in Texts |-> categories_in(smart_tech_categories, lower(t))]

\* ConversationMemory.update_smart_context (app.py 2307-2333): the
\* categories and the entities.  mentioned_entities is rebuilt with
\* list(set(...)), a list without duplicates in the order of the hashes:
\* the model keeps the set.  technical_terms, which nothing reads back, is
\* left out.
update_smart_context(mem, message, extracted_info) ==
    [mem EXCEPT
        !.complaint_categories = append_missing(@, SmartCategories[message]),
        !.mentioned_entities =
            IF Truthy(extracted_info.complaint_id)
            THEN @ \cup {"complaint_id:" \o extracted_info.complaint_id} ELSE @]

\* the messages and extraction results given to update_memory
MemoryMessages == {"hello", "thanks"}

MemoryInfos ==
    {[name |-> "John Smith", mobile |-> None, complaint_id |-> None],
     [name |-> "Jane Doe", mobile |-> "9123456789", complaint_id |-> None],
     [name |-> None, mobile |-> "9876543210", complaint_id |-> None]}

\* context_stack.append(item) without the pop of the oldest entry
push_context_no_evict(context_stack, item) == Append(context_stack, item)

\* context_stack.append(item), then pop(0) beyond 5 entries (app.py 2248-2257)
push_context(context_stack, item) ==
    LET appended == Append(context_stack, item)
    IN IF Len(appended) > StackLimit THEN Tail(appended) ELSE appended

\* the profile update without the test for a value already there
merge_profile_overwrite(user_profile, extracted_info) ==
    [name |-> IF Truthy(extracted_info.name) THEN extracted_info.name ELSE user_profile.name,
     mobile |-> IF Truthy(extracted_info.mobile) THEN extracted_info.mobile
                ELSE user_profile.mobile]

\* the profile update of update_memory (app.py 2237-2241)
merge_profile(user_profile, extracted_info) ==
    [name |-> IF Truthy(extracted_info.name) /\ ~Truthy(user_profile.name)
              THEN extracted_info.name ELSE user_profile.name,
     mobile |-> IF Truthy(extracted_info.mobile) /\ ~Truthy(user_profile.mobile)
                THEN extracted_info.mobile ELSE user_profile.mobile]

\* ConversationMemory.update_memory (app.py 2230-2264) on the whole memory;
\* n, the number of the call, stands for the timestamp of the entry, and
\* the bot response, which nothing reads back, is left out
memory_update_memory(user_message, extracted_info) ==
    /\ memory.total_messages < MaxTurns
    /\ memory' = update_smart_context(
           [user_profile |-> merge_profile(memory.user_profile, extracted_info),
            current_intent |-> MemoryIntent[user_message],
            previous_intents |-> Append(memory.previous_intents, MemoryIntent[user_message]),
            context_stack |->
                push_context(memory.context_stack,
                             [n |-> memory.total_messages + 1,
                              user_message |-> user_message,
                              intent |-> MemoryIntent[user_message],
                              extracted_info |-> extracted_info]),
            total_messages |-> memory.total_messages + 1,
            sentiment_history |-> Append(memory.sentiment_history, Sentiment[user_message]),
            complaint_categories |-> memory.complaint_categories,
            mentioned_entities |-> memory.mentioned_entities],
           user_message, extracted_info)
    /\ UNCHANGED <<session_vars, component_vars, streamlit_vars>>

InitMemory ==
    /\ SessionIdle
    /\ memory = NewConversationMemory
    /\ client = FALSE
    /\ llm_result = NoResult
    /\ insights_result = NoResult
    /\ rag_result = NoResult
    /\ DatabaseIdle
    /\ ServerIdle
    /\ extract_result = NoResult
    /\ OneSession

NextMemory ==
    \E m \in MemoryMessages, extracted_info \in MemoryInfos :
        memory_update_memory(m, extracted_info)

SpecMemory == InitMemory /\ [][NextMemory]_vars

\* the orders in which a set of sentiment labels can be iterated: the order
\* follows the hashes of the strings, which differ from one process to
\* another
HashOrders ==
    {order \in [1..Cardinality(SentimentLabels) -> SentimentLabels] :
        \A i, j \in DOMAIN order : i # j => order[i] # order[j]}

Count(history, label) == Cardinality({i \in DOMAIN history : history[i] = label})

\* max(set(history), key=history.count): the first label, in the iteration
\* order of the set, whose count no other label exceeds (app.py 2344-2345)
dominant_sentiment(history, order) ==
    IF history = <<>> THEN "neutral"
    ELSE LET labels == SelectSeq(order, LAMBDA l : Count(history, l) > 0)
             best == CHOOSE i \in DOMAIN labels :
                         /\ \A j \in DOMAIN labels :
                                Count(history, labels[j]) <= Count(history, labels[i])
                         /\ \A j \in 1..(i - 1) :
                                Count(history, labels[j]) < Count(history, labels[i])
         IN labels[best]

\* ConversationMemory.get_contextual_insights (app.py 2335-2348); at: the
\* number of update_memory calls made before the call
get_contextual_insights ==
    /\ \E order \in HashOrders :
           insights_result' =
               [called |-> TRUE,
                at |-> memory.total_messages,
                current_intent |-> memory.current_intent,
                conversation_length |-> Len(memory.context_stack),
                dominant_sentiment |-> dominant_sentiment(memory.sentiment_history, order)]
    /\ UNCHANGED <<session_vars, memory, client, llm_result, rag_result, db_vars, server_vars, extract_result, streamlit_vars>>

NextInsights ==
    \/ \E m \in MemoryMessages : memory_update_memory(m, NothingExtracted)
    \/ get_contextual_insights

SpecInsights == InitMemory /\ [][NextInsights]_vars

\* ------------------------------------------------------------------------
\* The readers of the conversation: analyze_conversation_context and
\* get_contextual_response (app.py 2350-2589), called on the message list
\* and the memory of the session.
\* ------------------------------------------------------------------------
MaxReaderMessages == 2

\* the entries of st.session_state.messages
ReaderEntries ==
    {[role |-> "user", content |-> "my screen is broken and flickering"],
     [role |-> "user", content |-> "hello"],
     [role |-> "assistant", content |-> "Our support team will help you"]}

\* the messages given to update_memory
ReaderMessages == {"hello", "my screen is broken and flickering"}

\* tech_categories of analyze_conversation_context (app.py 2385-2391)
context_tech_categories ==
    << <<"hardware", <<"laptop", "computer", "screen", "keyboard", "mouse", "printer">> >>,
       <<"software", <<"application", "program", "software", "app", "system", "windows">> >>,
       <<"network", <<"internet", "wifi", "connection", "network", "email", "website">> >>,
       <<"billing", <<"bill", "charge", "payment", "invoice", "account", "subscription">> >>,
       <<"service", <<"support", "service", "help", "assistance", "response">> >> >>

ContextCategories ==
    [e \in ReaderEntries |-> categories_in(context_tech_categories, lower(e.content))]

\* the loop over the recent messages (app.py 2393-2432), on the list that
\* context_info["complaint_categories"] refers to
RECURSIVE scan_categories(_, _, _)
scan_categories(list, recent_messages, i) ==
    IF i > Len(recent_messages) THEN list
    ELSE scan_categories(append_missing(list, ContextCategories[recent_messages[i]]),
                         recent_messages, i + 1)

\* st.session_state.messages[-15:]
recent(msgs) == IF Len(msgs) <= 15 THEN msgs ELSE SubSeq(msgs, Len(msgs) - 14, Len(msgs))

\* analyze_conversation_context (app.py 2350-2477).  insights is the
\* result of get_contextual_insights, whose "technical_focus" is the list
\* memory["smart_context"]["complaint_categories"] itself (app.py 2346), and
\* context_info["complaint_categories"] is that same list until the last
\* lines replace it by list(set(...)): the appends of the loop are made to
\* the list of the memory.  by: the function the caller entered.
analyze_conversation_context(by) ==
    /\ IF messages = <<>>
       THEN /\ insights_result' = [called |-> TRUE, by |-> by, has_history |-> FALSE,
                                   message_count |-> 0, complaint_categories |-> {}]
            /\ UNCHANGED memory
       ELSE LET scanned == scan_categories(memory.complaint_categories, recent(messages), 1)
            IN /\ memory' = [memory EXCEPT !.complaint_categories = scanned]
               /\ insights_result' =
                      [called |-> TRUE, by |-> by, has_history |-> TRUE,
                       message_count |-> Len(messages),
                       complaint_categories |-> {scanned[i] : i \in DOMAIN scanned}]
    /\ UNCHANGED <<session_vars, client, llm_result, rag_result, db_vars, server_vars, extract_result,
                   streamlit_vars>>

\* get_contextual_response of app.py (2479-2589): it calls
\* analyze_conversation_context and picks a text from what that returned
app_get_contextual_response == analyze_conversation_context("get_contextual_response")

\* the chat loop appends the prompt, and later the response, to the message
\* list (app.py 2907-2943)
append_message(e) ==
    /\ Len(messages) < MaxReaderMessages
    /\ messages' = Append(messages, e)
    /\ UNCHANGED <<session_vars, memory, component_vars, active, parked>>

NextReaders ==
    \/ \E e \in ReaderEntries : append_message(e)
    \/ \E m \in ReaderMessages : memory_update_memory(m, NothingExtracted)
    \/ analyze_conversation_context("analyze_conversation_context")
    \/ app_get_contextual_response
    \/ get_contextual_insights

SpecReaders == InitMemory /\ [][NextReaders]_vars

\* ------------------------------------------------------------------------
\* RAGSystem (core/rag_system.py)
\* ------------------------------------------------------------------------
\* largest top_k a caller passes
MaxTopK == 3

\* the similarity threshold, in hundredths (rag_system.py 87)
Threshold == 30

\* the default of top_k (rag_system.py 76)
DefaultTopK == 3

\* RAGSystem._load_knowledge_base (rag_system.py 16-68): the fields
\* get_contextual_response reads
KnowledgeBase == <<
    [id |-> "kb_001", category |-> "Hardware", typical_resolution_time |-> "2-3 business days"],
    [id |-> "kb_002", category |-> "Software", typical_resolution_time |-> "1-2 business days"],
    [id |-> "kb_003", category |-> "Network", typical_resolution_time |-> "4-6 hours"],
    [id |-> "kb_004", category |-> "Account", typical_resolution_time |-> "2-4 hours"],
    [id |-> "kb_005", category |-> "Billing", typical_resolution_time |-> "3-5 business days"],
    [id |-> "kb_006", category |-> "Service", typical_resolution_time |-> "1-2 business days"] >>

\* cosine similarities of a query to the entries, in hundredths
SimValues == {Threshold, Threshold + 1, 2 * Threshold}

Similarities == [DOMAIN KnowledgeBase -> SimValues]

\* the orders of the indices of the knowledge base
IndexOrders == Permutations(DOMAIN KnowledgeBase)

\* np.argsort(similarities): an order of the indices by ascending
\* similarity; the order of equal similarities is not specified
argsort(similarities) ==
    {order \in IndexOrders :
        \A i \in 1..(Len(order) - 1) : similarities[order[i]] <= similarities[order[i + 1]]}

ArgSort == [similarities \in Similarities |-> argsort(similarities)]

\* a[-k:] of Python, k >= 0: a[-0:] is the whole of a
last_items(a, k) ==
    IF k = 0 \/ k >= Len(a) THEN a ELSE SubSeq(a, Len(a) - k + 1, Len(a))

\* a[::-1]
reversed(a) == [i \in DOMAIN a |-> a[Len(a) + 1 - i]]

\* the entries find_relevant_context returns (rag_system.py 83-93)
relevant_entries(similarities, order, top_k) ==
    LET top_indices == reversed(last_items(order, top_k))
        kept == SelectSeq(top_indices, LAMBDA idx : similarities[idx] > Threshold)
    IN [i \in DOMAIN kept |->
           [id |-> KnowledgeBase[kept[i]].id,
            category |-> KnowledgeBase[kept[i]].category,
            typical_resolution_time |-> KnowledgeBase[kept[i]].typical_resolution_time,
            similarity_score |-> similarities[kept[i]]]]

NoResponse == [category |-> None, estimated_resolution |-> None]

\* the generic acknowledgement (rag_system.py 99-105)
GenericResponse == [category |-> "Other", estimated_resolution |-> "3-5 business days"]

\* RAGSystem.find_relevant_context (rag_system.py 76-93); encodes: the
\* embedding model encodes the query, else it raises, and nothing catches.
\* A call reads nothing that an earlier call wrote: a behaviour makes one
find_relevant_context(similarities, top_k, encodes) ==
    /\ ~rag_result.called
    /\ \E order \in ArgSort[similarities] :
           rag_result' =
               [called |-> TRUE, op |-> "find_relevant_context", top_k |-> top_k,
                encodes |-> encodes, raised |-> ~encodes,
                entries |-> IF encodes THEN relevant_entries(similarities, order, top_k)
                            ELSE <<>>,
                response |-> NoResponse]
    /\ UNCHANGED <<session_vars, memory, client, llm_result, insights_result, db_vars, server_vars, extract_result, streamlit_vars>>

\* RAGSystem.get_contextual_response (rag_system.py 95-114)
get_contextual_response(similarities, encodes) ==
    /\ ~rag_result.called
    /\ \E order \in ArgSort[similarities] :
           LET relevant_context == relevant_entries(similarities, order, DefaultTopK)
           IN rag_result' =
                  [called |-> TRUE, op |-> "get_contextual_response", top_k |-> DefaultTopK,
                   encodes |-> encodes, raised |-> ~encodes,
                   entries |-> IF encodes THEN relevant_context ELSE <<>>,
                   response |->
                       IF ~encodes THEN NoResponse
                       ELSE IF relevant_context = <<>> THEN GenericResponse
                       ELSE [category |-> relevant_context[1].category,
                             estimated_resolution |->
                                 relevant_context[1].typical_resolution_time]]
    /\ UNCHANGED <<session_vars, memory, client, llm_result, insights_result, db_vars, server_vars, extract_result, streamlit_vars>>

InitRAG ==
    /\ SessionIdle
    /\ memory = ConversationMemory
    /\ client = FALSE
    /\ llm_result = NoResult
    /\ insights_result = NoResult
    /\ rag_result = NoResult
    /\ DatabaseIdle
    /\ ServerIdle
    /\ extract_result = NoResult
    /\ OneSession

NextRAG ==
    \/ \E similarities \in Similarities, top_k \in 0..MaxTopK, encodes \in BOOLEAN :
           find_relevant_context(similarities, top_k, encodes)
    \/ \E similarities \in Similarities, encodes \in BOOLEAN :
           get_contextual_response(similarities, encodes)

SpecRAG == InitRAG /\ [][NextRAG]_vars

\* ------------------------------------------------------------------------
\* DatabaseManager (database/database.py).  A table is the sequence of its
\* rows in rowid order.  Every method opens its own connection and runs to
\* its end before the next call starts: the endpoints of api_server.py are
\* coroutines that never await, and nothing else writes to the file.  A
\* row of complaints keeps the columns complaint_id, mobile, status and
\* created_at; a row of status_history keeps complaint_id, old_status,
\* new_status and notes.
\* ------------------------------------------------------------------------
MaxHistory == 4
MaxClock == 1

\* Config.COMPLAINT_STATUSES, the values of ComplaintStatus
COMPLAINT_STATUSES == <<"Registered", "In Progress", "Under Review", "Resolved",
                        "Closed", "Rejected">>

Registered == COMPLAINT_STATUSES[1]

\* the statuses the modelled calls of update_complaint_status pass
NewStatuses == {"In Progress", "Resolved"}

\* values of uuid.uuid4().hex[:8]
HexPrefixes == {"0a1b2c3d", "12345678"}

\* the identifier as uuid4().hex spells it
generate_complaint_id_no_upper(hex) == "CMP" \o hex

\* DatabaseManager.generate_complaint_id with uuid4().hex[:8] = hex
generate_complaint_id(hex) == "CMP" \o upper(hex)

GeneratedId == [hex \in HexPrefixes |-> generate_complaint_id(hex)]

\* the identifiers the calls are made with: every generated one, and the
\* lower-case spelling of one of them
CallIds == {GeneratedId[hex] : hex \in HexPrefixes} \cup {"cmp0a1b2c3d"}

\* the mobile numbers of the registered complaints
StoredMobiles == {"9876543210", "+919876543210", "98765432109"}

\* the arguments of get_complaints_by_mobile
QueryMobiles == {"(987) 654-3210", "+91 9876543210", "919876543210", "76543"}

\* SELECT * FROM complaints WHERE complaint_id = ?: the positions of the rows
RowsOf(complaint_id) == {i \in DOMAIN complaints : complaints[i].complaint_id = complaint_id}

\* the rows of a table that a DELETE ... WHERE complaint_id = ? leaves
delete_rows(table, complaint_id) == SelectSeq(table, LAMBDA row : row.complaint_id # complaint_id)

\* a status_history row that drops the status read before the UPDATE
history_row_no_old_status(complaint_id, old_status, new_status, notes) ==
    [complaint_id |-> complaint_id, old_status |-> None, new_status |-> new_status,
     notes |-> notes]

\* INSERT INTO status_history (complaint_id, old_status, new_status, notes)
history_row(complaint_id, old_status, new_status, notes) ==
    [complaint_id |-> complaint_id, old_status |-> old_status, new_status |-> new_status,
     notes |-> notes]

\* CURRENT_TIMESTAMP counts whole seconds: the time of a new row is the
\* time of the newest row or later
Now == LET newest == IF complaints = <<>> THEN 0
                     ELSE complaints[Len(complaints)].created_at
       IN {t \in newest..(newest + 1) : t <= MaxClock}

\* DatabaseManager.register_complaint: the INSERT into complaints fails on
\* the UNIQUE constraint when the generated identifier is stored already,
\* and the exception leaves the connection's block before anything is
\* committed
register_complaint(mobile, hex, now) ==
    LET complaint_id == GeneratedId[hex] IN
    /\ IF RowsOf(complaint_id) # {}
       THEN /\ db_result' = [called |-> TRUE, op |-> "register_complaint",
                             complaint_id |-> complaint_id, raised |-> TRUE,
                             value |-> None]
            /\ UNCHANGED <<complaints, status_history>>
       ELSE LET row == [complaint_id |-> complaint_id, mobile |-> mobile,
                        status |-> Registered, created_at |-> now]
            IN /\ Len(status_history) < MaxHistory
               /\ complaints' = Append(complaints, row)
               /\ status_history' = Append(status_history,
                      history_row(complaint_id, None, Registered, "Complaint registered"))
               /\ db_result' = [called |-> TRUE, op |-> "register_complaint",
                                complaint_id |-> complaint_id, raised |-> FALSE,
                                value |-> row]
    /\ UNCHANGED <<session_vars, memory, client, llm_result, insights_result, rag_result,
                   extract_result, streamlit_vars>>

\* DatabaseManager.get_complaint_by_id: the row, or None
get_complaint_by_id(complaint_id) ==
    IF RowsOf(complaint_id) = {} THEN None
    ELSE complaints[CHOOSE i \in RowsOf(complaint_id) : TRUE]

\* the update without the test of the row read first: the UPDATE changes
\* no row, and the history row is inserted all the same
update_complaint_status_no_lookup(complaint_id, new_status, notes) ==
    LET old_status == IF RowsOf(complaint_id) = {} THEN None
                      ELSE get_complaint_by_id(complaint_id).status
    IN /\ Len(status_history) < MaxHistory
       /\ complaints' = [i \in DOMAIN complaints |->
              IF complaints[i].complaint_id = complaint_id
              THEN [complaints[i] EXCEPT !.status = new_status]
              ELSE complaints[i]]
       /\ status_history' = Append(status_history,
              history_row(complaint_id, old_status, new_status, notes))
       /\ db_result' = [called |-> TRUE, op |-> "update_complaint_status",
                        complaint_id |-> complaint_id, raised |-> FALSE,
                        value |-> TRUE]
       /\ UNCHANGED <<session_vars, memory, client, llm_result, insights_result, rag_result,
                      extract_result, streamlit_vars>>

\* DatabaseManager.update_complaint_status
update_complaint_status(complaint_id, new_status, notes) ==
    /\ IF RowsOf(complaint_id) = {}
       THEN /\ db_result' = [called |-> TRUE, op |-> "update_complaint_status",
                             complaint_id |-> complaint_id, raised |-> FALSE,
                             value |-> FALSE]
            /\ UNCHANGED <<complaints, status_history>>
       ELSE LET old_status == get_complaint_by_id(complaint_id).status
            IN /\ Len(status_history) < MaxHistory
               /\ complaints' = [i \in DOMAIN complaints |->
                      IF complaints[i].complaint_id = complaint_id
                      THEN [complaints[i] EXCEPT !.status = new_status]
                      ELSE complaints[i]]
               /\ status_history' = Append(status_history,
                      history_row(complaint_id, old_status, new_status, notes))
               /\ db_result' = [called |-> TRUE, op |-> "update_complaint_status",
                                complaint_id |-> complaint_id, raised |-> FALSE,
                                value |-> TRUE]
    /\ UNCHANGED <<session_vars, memory, client, llm_result, insights_result, rag_result,
                   extract_result, streamlit_vars>>

\* the deletion without the DELETE on status_history
delete_complaint_keep_history(complaint_id) ==
    /\ complaints' = delete_rows(complaints, complaint_id)
    /\ db_result' = [called |-> TRUE, op |-> "delete_complaint",
                     complaint_id |-> complaint_id, raised |-> FALSE,
                     value |-> Cardinality(RowsOf(complaint_id)) > 0]
    /\ UNCHANGED status_history
    /\ UNCHANGED <<session_vars, memory, client, llm_result, insights_result, rag_result,
                   extract_result, streamlit_vars>>

\* DatabaseManager.delete_complaint: cursor.rowcount is the number of rows
\* the second DELETE removed
delete_complaint(complaint_id) ==
    /\ status_history' = delete_rows(status_history, complaint_id)
    /\ complaints' = delete_rows(complaints, complaint_id)
    /\ db_result' = [called |-> TRUE, op |-> "delete_complaint",
                     complaint_id |-> complaint_id, raised |-> FALSE,
                     value |-> Cardinality(RowsOf(complaint_id)) > 0]
    /\ UNCHANGED <<session_vars, memory, client, llm_result, insights_result, rag_result,
                   extract_result, streamlit_vars>>

\* re.sub(r'[-.\s\(\)]', '', mobile)
clean_mobile(mobile) == FilterChars(mobile, "-.()" \o Whitespace, FALSE)

CleanMobile == [mobile \in QueryMobiles |-> clean_mobile(mobile)]

\* SUBSTR(s, -10) and s[-10:]: the last ten characters, the whole text when
\* it is shorter
last10(s) == IF Len(s) <= 10 THEN s ELSE SubSeq(s, Len(s) - 9, Len(s))

\* the WHERE clauses of the three search queries, on the mobile of a row.
\* LIKE '%text%' is containment for a text of digits and '+'.
search_queries(clean) ==
    << [mobile \in StoredMobiles |-> mobile = clean],
       [mobile \in StoredMobiles |-> last10(mobile) = last10(clean)],
       [mobile \in StoredMobiles |-> Contains(mobile, clean)] >>

SearchQueries == [mobile \in QueryMobiles |-> search_queries(CleanMobile[mobile])]

\* ORDER BY created_at DESC over the rows at the positions in rows: every
\* order of them in which created_at never increases
order_by_created_at_desc(rows) ==
    {order \in [1..Cardinality(rows) -> rows] :
        /\ \A i, j \in DOMAIN order : i # j => order[i] # order[j]
        /\ \A i, j \in DOMAIN order :
               i < j => complaints[order[i]].created_at >= complaints[order[j]].created_at}

\* the loop body without the test against found_ids
append_new_no_dedupe(found, order) == found \o order

\* the loop body for one query: append the rows not found before
append_new(found, order) == found \o SelectSeq(order, LAMBDA i : \A k \in DOMAIN found : found[k] # i)

\* DatabaseManager.get_complaints_by_mobile
get_complaints_by_mobile(mobile) ==
    LET where == SearchQueries[mobile]
        rows(q) == {i \in DOMAIN complaints : where[q][complaints[i].mobile]}
    IN \E exact \in order_by_created_at_desc(rows(1)),
          last_digits \in order_by_created_at_desc(rows(2)),
          like \in order_by_created_at_desc(rows(3)) :
           LET found == IF exact # <<>> THEN exact
                        ELSE append_new(append_new(exact, last_digits), like)
           IN /\ db_result' = [called |-> TRUE, op |-> "get_complaints_by_mobile",
                               complaint_id |-> mobile, raised |-> FALSE,
                               value |-> [k \in DOMAIN found |-> complaints[found[k]]]]
              /\ UNCHANGED <<complaints, status_history>>
              /\ UNCHANGED <<session_vars, memory, client, llm_result, insights_result, rag_result,
                             extract_result, streamlit_vars>>

InitDB ==
    /\ SessionIdle
    /\ memory = ConversationMemory
    /\ client = FALSE
    /\ llm_result = NoResult
    /\ insights_result = NoResult
    /\ rag_result = NoResult
    /\ DatabaseIdle
    /\ ServerIdle
    /\ extract_result = NoResult
    /\ OneSession

NextDB ==
    \/ \E mobile \in StoredMobiles, hex \in HexPrefixes, now \in Now :
           register_complaint(mobile, hex, now) /\ UNCHANGED server_vars
    \/ \E complaint_id \in CallIds, new_status \in NewStatuses :
           update_complaint_status(complaint_id, new_status, "Updated by admin")
           /\ UNCHANGED server_vars
    \/ \E complaint_id \in CallIds : delete_complaint(complaint_id) /\ UNCHANGED server_vars
    \/ \E mobile \in QueryMobiles : get_complaints_by_mobile(mobile) /\ UNCHANGED server_vars

SpecDB == InitDB /\ [][NextDB]_vars

\* ------------------------------------------------------------------------
\* The endpoint /simulate-status-update of api_server.py on the database.
\* The endpoints are coroutines that never await: one runs to its end
\* before the next starts.
\* ------------------------------------------------------------------------
\* ComplaintStatus: models/models.py; the values are those of
\* Config.COMPLAINT_STATUSES
ComplaintStatus ==
    [REGISTERED |-> "Registered", IN_PROGRESS |-> "In Progress",
     UNDER_REVIEW |-> "Under Review", RESOLVED |-> "Resolved",
     CLOSED |-> "Closed", REJECTED |-> "Rejected"]

\* the statuses an administrator sets through /update-complaint-status
AdminStatuses == {ComplaintStatus.CLOSED, ComplaintStatus.REJECTED}

\* a progression that leaves out the review
status_progression_skip_review(current_status) ==
    CASE current_status = ComplaintStatus.REGISTERED -> ComplaintStatus.IN_PROGRESS
      [] current_status = ComplaintStatus.IN_PROGRESS -> ComplaintStatus.RESOLVED
      [] current_status = ComplaintStatus.UNDER_REVIEW -> ComplaintStatus.RESOLVED
      [] OTHER -> current_status

\* status_progression.get(current_status, current_status) (api_server.py 163-169)
status_progression(current_status) ==
    CASE current_status = ComplaintStatus.REGISTERED -> ComplaintStatus.IN_PROGRESS
      [] current_status = ComplaintStatus.IN_PROGRESS -> ComplaintStatus.UNDER_REVIEW
      [] current_status = ComplaintStatus.UNDER_REVIEW -> ComplaintStatus.RESOLVED
      [] OTHER -> current_status

\* simulate_status_update (api_server.py 153-197);
\* generate_status_update_message reads the database and never raises
simulate_status_update(complaint_id) ==
    /\ IF RowsOf(complaint_id) = {}
       THEN /\ api_result' = [called |-> TRUE, endpoint |-> "simulate_status_update",
                              complaint_id |-> complaint_id, status_code |-> 404,
                              old_status |-> None, new_status |-> None]
            /\ UNCHANGED db_vars
            /\ UNCHANGED <<session_vars, memory, client, llm_result, insights_result,
                           rag_result, extract_result, streamlit_vars>>
       ELSE LET current_status == get_complaint_by_id(complaint_id).status
                new_status == status_progression(current_status)
            IN IF new_status # current_status
               THEN /\ update_complaint_status(complaint_id, new_status,
                                               "Status updated automatically for demo")
                    /\ api_result' = [called |-> TRUE, endpoint |-> "simulate_status_update",
                                      complaint_id |-> complaint_id, status_code |-> 200,
                                      old_status |-> current_status,
                                      new_status |-> new_status]
               ELSE /\ api_result' = [called |-> TRUE, endpoint |-> "simulate_status_update",
                                      complaint_id |-> complaint_id, status_code |-> 200,
                                      old_status |-> current_status,
                                      new_status |-> current_status]
                    /\ UNCHANGED db_vars
                    /\ UNCHANGED <<session_vars, memory, client, llm_result, insights_result,
                                   rag_result, extract_result, streamlit_vars>>
    /\ UNCHANGED <<requests, connections>>

NextSimulate ==
    \/ \E mobile \in StoredMobiles, hex \in HexPrefixes, now \in Now :
           register_complaint(mobile, hex, now) /\ UNCHANGED server_vars
    \/ \E complaint_id \in CallIds : simulate_status_update(complaint_id)
    \/ \E complaint_id \in CallIds, new_status \in AdminStatuses :
           update_complaint_status(complaint_id, new_status, "Updated by admin")
           /\ UNCHANGED server_vars

SpecSimulate == InitDB /\ [][NextSimulate]_vars

\* ------------------------------------------------------------------------
\* register_complaint_api of app.py against the endpoint
\* /register-complaint of api_server.py: the page and the server are two
\* processes, and requests.post(..., timeout=10) ends the page's wait
\* without ending the endpoint's run.
\* requests[i] is one call of register_complaint_api:
\*   server  "pending"      the request is on its way or being handled
\*           "unreachable"  requests.post raised before the server got it
\*           "stored"       the endpoint returned the complaint (200)
\*           "raised"       the endpoint raised HTTPException (500)
\*   client  "waiting", "success" or "failure": what the call returned
\* ------------------------------------------------------------------------
MaxAttempts == 3

\* no call of register_complaint_api is waiting for its response
NoneWaiting == \A i \in DOMAIN requests : requests[i].client # "waiting"

\* register_complaint_api up to requests.post (app.py 72-84): the request
\* is delivered, or the connection fails and the except clause returns
\* success False
register_complaint_api_post(mobile, delivered) ==
    /\ Len(requests) < MaxAttempts
    /\ NoneWaiting
    /\ requests' = Append(requests,
           IF delivered
           THEN [mobile |-> mobile, server |-> "pending", client |-> "waiting",
                 complaint_id |-> None]
           ELSE [mobile |-> mobile, server |-> "unreachable", client |-> "failure",
                 complaint_id |-> None])
    /\ UNCHANGED <<session_vars, memory, client, llm_result, insights_result, rag_result,
                   db_vars, extract_result, streamlit_vars>>
    /\ UNCHANGED <<api_result, connections>>

\* the endpoint register_complaint (api_server.py 50-69) on a delivered
\* request, whether or not the page still waits: what
\* DatabaseManager.register_complaint raises becomes the status 500
endpoint_register_complaint(i, hex, now) ==
    /\ requests[i].server = "pending"
    /\ register_complaint(requests[i].mobile, hex, now)
    /\ requests' = [requests EXCEPT
           ![i].server = IF db_result'.raised THEN "raised" ELSE "stored",
           ![i].complaint_id = IF db_result'.raised THEN None
                               ELSE db_result'.complaint_id]
    /\ api_result' = [called |-> TRUE, endpoint |-> "register_complaint",
                      complaint_id |-> db_result'.complaint_id,
                      status_code |-> IF db_result'.raised THEN 500 ELSE 200,
                      old_status |-> None, new_status |-> None]
    /\ UNCHANGED connections

\* the response the endpoint sent reaches requests.post (app.py 86-89)
register_complaint_api_response(i) ==
    /\ requests[i].client = "waiting"
    /\ requests[i].server \in {"stored", "raised"}
    /\ requests' = [requests EXCEPT
           ![i].client = IF requests[i].server = "stored" THEN "success"
                         ELSE "failure"]
    /\ UNCHANGED <<session_vars, memory, client, llm_result, insights_result, rag_result,
                   db_vars, extract_result, streamlit_vars>>
    /\ UNCHANGED <<api_result, connections>>

\* ten seconds pass before the response: requests.post raises and the
\* except clause returns success False (app.py 91-92)
register_complaint_api_timeout(i) ==
    /\ requests[i].client = "waiting"
    /\ requests' = [requests EXCEPT ![i].client = "failure"]
    /\ UNCHANGED <<session_vars, memory, client, llm_result, insights_result, rag_result,
                   db_vars, extract_result, streamlit_vars>>
    /\ UNCHANGED <<api_result, connections>>

NextRegister ==
    \/ \E mobile \in StoredMobiles, delivered \in BOOLEAN :
           register_complaint_api_post(mobile, delivered)
    \/ \E i \in DOMAIN requests, hex \in HexPrefixes, now \in Now :
           endpoint_register_complaint(i, hex, now)
    \/ \E i \in DOMAIN requests : register_complaint_api_response(i)
    \/ \E i \in DOMAIN requests : register_complaint_api_timeout(i)

SpecRegister == InitDB /\ [][NextRegister]_vars

\* ------------------------------------------------------------------------
\* update_complaint_status and delete_complaint of database.py statement by
\* statement, each call on the connection get_connection opened for it.
\* complaints and status_history are the committed tables. sqlite3 opens a
\* transaction before an UPDATE, INSERT or DELETE and not before a SELECT;
\* one connection writes at a time, the others read the committed tables,
\* and a statement that waits for the writer longer than the timeout of
\* sqlite3.connect raises "database is locked".
\* ------------------------------------------------------------------------
\* the connections with an open write transaction
Writers == {c \in Connections : connections[c].pc \notin {"idle", "update"}}

\* what the methods modelled here leave alone
connection_frame == <<session_vars, memory, client, llm_result, insights_result, rag_result,
                      extract_result, streamlit_vars, api_result, requests>>

\* update_complaint_status up to fetchone (database.py 166-174): no row
\* returns False
update_complaint_status_select(c, complaint_id, new_status) ==
    /\ connections[c].pc = "idle"
    /\ IF RowsOf(complaint_id) = {}
       THEN /\ db_result' = [called |-> TRUE, op |-> "update_complaint_status",
                             complaint_id |-> complaint_id, raised |-> FALSE,
                             value |-> FALSE]
            /\ UNCHANGED connections
       ELSE /\ connections' = [connections EXCEPT ![c] =
                   [IdleConnection EXCEPT !.pc = "update",
                                          !.complaint_id = complaint_id,
                                          !.new_status = new_status,
                                          !.old_status = get_complaint_by_id(complaint_id).status]]
            /\ UNCHANGED db_result
    /\ UNCHANGED <<complaints, status_history, connection_frame>>

\* the UPDATE (database.py 178-183) opens the transaction on the committed
\* tables and changes the rows the WHERE clause finds now
update_complaint_status_update(c) ==
    /\ connections[c].pc = "update"
    /\ Writers = {}
    /\ connections' = [connections EXCEPT ![c] =
           [@ EXCEPT !.pc = "insert",
                     !.rowcount = Cardinality(RowsOf(connections[c].complaint_id)),
                     !.tx_complaints = [i \in DOMAIN complaints |->
                         IF complaints[i].complaint_id = connections[c].complaint_id
                         THEN [complaints[i] EXCEPT !.status = connections[c].new_status]
                         ELSE complaints[i]],
                     !.tx_history = status_history]]
    /\ UNCHANGED <<db_vars, connection_frame>>

\* the INSERT into status_history (database.py 186-189) with the status
\* the SELECT read
update_complaint_status_insert(c, notes) ==
    /\ connections[c].pc = "insert"
    /\ Len(connections[c].tx_history) < MaxHistory
    /\ connections' = [connections EXCEPT ![c] =
           [@ EXCEPT !.pc = "commit_update",
                     !.rowcount = 1,
                     !.tx_history = Append(connections[c].tx_history,
                         history_row(connections[c].complaint_id, connections[c].old_status, connections[c].new_status, notes))]]
    /\ UNCHANGED <<db_vars, connection_frame>>

\* delete_complaint up to the first DELETE (database.py 233-237), which
\* opens the transaction
delete_complaint_history(c, complaint_id) ==
    /\ connections[c].pc = "idle"
    /\ Writers = {}
    /\ connections' = [connections EXCEPT ![c] =
           [IdleConnection EXCEPT
               !.pc = "delete",
               !.complaint_id = complaint_id,
               !.rowcount = Len(status_history)
                               - Len(delete_rows(status_history, complaint_id)),
               !.tx_complaints = complaints,
               !.tx_history = delete_rows(status_history, complaint_id)]]
    /\ UNCHANGED <<db_vars, connection_frame>>

\* the DELETE on complaints (database.py 240)
delete_complaint_row(c) ==
    /\ connections[c].pc = "delete"
    /\ connections' = [connections EXCEPT ![c] =
           [@ EXCEPT !.pc = "commit_delete",
                     !.rowcount = Len(connections[c].tx_complaints)
                                     - Len(delete_rows(connections[c].tx_complaints, connections[c].complaint_id)),
                     !.tx_complaints = delete_rows(connections[c].tx_complaints, connections[c].complaint_id)]]
    /\ UNCHANGED <<db_vars, connection_frame>>

\* conn.commit() and the return (database.py 191-192 and 242-243)
connection_commit(c) ==
    /\ connections[c].pc \in {"commit_update", "commit_delete"}
    /\ complaints' = connections[c].tx_complaints
    /\ status_history' = connections[c].tx_history
    /\ db_result' = [called |-> TRUE,
                     op |-> IF connections[c].pc = "commit_update"
                            THEN "update_complaint_status" ELSE "delete_complaint",
                     complaint_id |-> connections[c].complaint_id, raised |-> FALSE,
                     value |-> IF connections[c].pc = "commit_update" THEN TRUE
                               ELSE connections[c].rowcount > 0]
    /\ connections' = [connections EXCEPT ![c] = IdleConnection]
    /\ UNCHANGED connection_frame

\* the UPDATE waited for another connection's transaction longer than the
\* timeout: sqlite3.OperationalError leaves the with block, nothing written
database_is_locked(c) ==
    /\ connections[c].pc = "update"
    /\ Writers # {}
    /\ db_result' = [called |-> TRUE, op |-> "update_complaint_status",
                     complaint_id |-> connections[c].complaint_id, raised |-> TRUE,
                     value |-> None]
    /\ connections' = [connections EXCEPT ![c] = IdleConnection]
    /\ UNCHANGED <<complaints, status_history, connection_frame>>

\* the complaint the concurrent calls are about
ConnectionHex == "0a1b2c3d"

NextConnections ==
    \/ \E now \in Now :
           /\ Writers = {}
           /\ register_complaint("9876543210", ConnectionHex, now)
           /\ UNCHANGED server_vars
    \/ \E c \in Connections, new_status \in NewStatuses :
           update_complaint_status_select(c, GeneratedId[ConnectionHex], new_status)
    \/ \E c \in Connections : update_complaint_status_update(c)
    \/ \E c \in Connections : update_complaint_status_insert(c, "Updated by admin")
    \/ \E c \in Connections :
           delete_complaint_history(c, GeneratedId[ConnectionHex])
    \/ \E c \in Connections : delete_complaint_row(c)
    \/ \E c \in Connections : connection_commit(c)
    \/ \E c \in Connections : database_is_locked(c)

SpecConnections == InitDB /\ [][NextConnections]_vars

\* ------------------------------------------------------------------------
\* IntentBasedResponseSystem.extract_information (app.py 251-346) called on
\* its own: phone numbers in the spellings people use, bare, after a few
\* words and after a complaint identifier, and the messages that are names
\* ------------------------------------------------------------------------
Phones == {"9876543210", "+919876543210", "+91 9876543210", "919876543210",
           "987-654-3210", "(987) 654-3210", "987.654.3210", "+1 987 654 3210",
           "98765 43210", "123456789012345", "+91-9876543210"}

PlainPrefixes == {"", "my number is "}

\* the complaint identifier in front of the phone number
IdOfPrefix == [prefix \in {"CMP12345678 ", "status of CMP9B41CA0F for "} |->
                  IF prefix = "CMP12345678 " THEN "CMP12345678" ELSE "CMP9B41CA0F"]

Suffixes == {"", " please", " it is urgent"}

NameMessages == {"John Smith", "my name is John", "call me John", "name is John Smith",
                 "hello"}

OtherMessages == {"CMP1234567890", "CMP12345678", "complaint number 9876543210"}

\* a message in its parts: the phone number or the whole text is the body
ExtractInputs ==
    [prefix : PlainPrefixes \cup DOMAIN IdOfPrefix, body : Phones, suffix : Suffixes]
        \cup [prefix : {""}, body : NameMessages \cup OtherMessages, suffix : {""}]

TextOf(input) == input.prefix \o input.body \o input.suffix

Extracted == [input \in ExtractInputs |-> extract_information(TextOf(input))]

\* one call of extract_information in a behaviour
call_extract_information(input) ==
    /\ ~extract_result.called
    /\ extract_result' = [called |-> TRUE, input |-> input, user_message |-> TextOf(input),
                          extracted |-> Extracted[input]]
    /\ UNCHANGED <<session_vars, memory, client, llm_result, insights_result, rag_result,
                   db_vars, server_vars, streamlit_vars>>

InitExtract ==
    /\ SessionIdle
    /\ memory = ConversationMemory
    /\ client = FALSE
    /\ llm_result = NoResult
    /\ insights_result = NoResult
    /\ rag_result = NoResult
    /\ DatabaseIdle
    /\ ServerIdle
    /\ extract_result = NoResult
    /\ OneSession

NextExtract == \E input \in ExtractInputs : call_extract_information(input)

SpecExtract == InitExtract /\ [][NextExtract]_vars

\* ------------------------------------------------------------------------
\* Several browser sessions on one Streamlit server.  Streamlit runs the
\* script of app.py once per interaction, with st.session_state bound to
\* the session that interacted; the variables of the chat session above
\* are the bound st.session_state, parked holds the others.
\* ------------------------------------------------------------------------
MaxSessionTurns == 2

SessionIds == {1, 2}

SessionMessages == {"I want to register a complaint",
                    "My name is John Smith, I have a complaint"}

\* st.session_state after the initialisation of app.py 25-35 and before
\* the first turn
NewSessionState ==
    [messages |-> <<>>, user_context |-> UserContext, ctx_id |-> 0, llm_handler |-> TRUE,
     memory |-> ConversationMemory]

\* st.session_state of the bound session
BoundSessionState ==
    [messages |-> messages, user_context |-> user_context, ctx_id |-> ctx_id,
     llm_handler |-> llm_handler, memory |-> memory]

\* a binding under which the conversation memory is one object of the
\* server process instead of an entry of st.session_state
bind_session_shared_memory(s) ==
    /\ s \in DOMAIN parked
    /\ parked' = [t \in (DOMAIN parked \ {s}) \cup {active} |->
                     IF t = active THEN BoundSessionState ELSE parked[t]]
    /\ active' = s
    /\ messages' = parked[s].messages
    /\ user_context' = parked[s].user_context
    /\ ctx_id' = parked[s].ctx_id
    /\ llm_handler' = parked[s].llm_handler
    /\ UNCHANGED memory
    /\ UNCHANGED <<entry, api_calls, intent, turn, component_vars>>

\* the script starts to run for session s: st.session_state is the state
\* of s, created by app.py 25-35 and ConversationMemory.__init__ when s is new
bind_session(s) ==
    /\ s \in DOMAIN parked
    /\ parked' = [t \in (DOMAIN parked \ {s}) \cup {active} |->
                     IF t = active THEN BoundSessionState ELSE parked[t]]
    /\ active' = s
    /\ messages' = parked[s].messages
    /\ user_context' = parked[s].user_context
    /\ ctx_id' = parked[s].ctx_id
    /\ llm_handler' = parked[s].llm_handler
    /\ memory' = parked[s].memory
    /\ UNCHANGED <<entry, api_calls, intent, turn, component_vars>>

\* the chat input of main (app.py 2905-2935): the prompt and the response
\* are appended to the message list; the outcome of the turn stands for the
\* text of the response
chat_input(prompt, api_status) ==
    /\ IF api_status
       THEN /\ \/ process_user_message(prompt)
               \/ intent_system_process_user_message(prompt)
            /\ messages' = messages \o <<[role |-> "user", content |-> prompt],
                                         [role |-> "assistant", content |-> turn'.outcome]>>
       ELSE /\ messages' = messages \o <<[role |-> "user", content |-> prompt],
                                         [role |-> "assistant", content |-> "unavailable"]>>
            /\ UNCHANGED <<session_vars, memory, component_vars>>
    /\ UNCHANGED <<active, parked>>

InitSessions ==
    /\ entry \in {"process_user_message", "IntentBasedResponseSystem.process_user_message"}
    /\ user_context = UserContext
    /\ ctx_id = 0
    /\ api_calls = <<>>
    /\ llm_handler = TRUE
    /\ memory = ConversationMemory
    /\ intent = None
    /\ turn = NoTurn
    /\ client = FALSE
    /\ llm_result = NoResult
    /\ insights_result = NoResult
    /\ rag_result = NoResult
    /\ DatabaseIdle
    /\ ServerIdle
    /\ extract_result = NoResult
    /\ messages = <<>>
    /\ active = 1
    /\ parked = [s \in SessionIds \ {1} |-> NewSessionState]

NextSessions ==
    \/ \E s \in SessionIds : bind_session(s)
    \/ \E prompt \in SessionMessages, api_status \in BOOLEAN :
           Len(messages) < 2 * MaxSessionTurns /\ chat_input(prompt, api_status)
    \/ ClearChat

SpecSessions == InitSessions /\ [][NextSessions]_vars

\* ------------------------------------------------------------------------
\* One chat: the turns of one session through the chat input of main, with
\* the message list as the record of what was typed and answered.
\* ------------------------------------------------------------------------
MaxChatTurns == 4

\* what the user of the chat types: requests to register, names, phone
\* numbers and a description
ChatMessages == {"I want to register a complaint",
                 "I have an issue with my laptop, my name is John Smith, number is 9876543210",
                 "John Smith", "hello",
                 "9876543210", "+919876543210",
                 "the elevator makes noise daily"}

InitChat ==
    /\ entry \in {"process_user_message", "IntentBasedResponseSystem.process_user_message"}
    /\ user_context = UserContext
    /\ ctx_id = 0
    /\ api_calls = <<>>
    /\ llm_handler = TRUE
    /\ memory = ConversationMemory
    /\ intent = None
    /\ turn = NoTurn
    /\ client = FALSE
    /\ llm_result = NoResult
    /\ insights_result = NoResult
    /\ rag_result = NoResult
    /\ DatabaseIdle
    /\ ServerIdle
    /\ extract_result = NoResult
    /\ OneSession

NextChat ==
    \/ \E prompt \in ChatMessages, api_status \in BOOLEAN :
           Len(messages) < 2 * MaxChatTurns /\ chat_input(prompt, api_status)
    \/ ClearChat

SpecChat == InitChat /\ [][NextChat]_vars

\* ------------------------------------------------------------------------
\* Properties
\* ------------------------------------------------------------------------
MainEntry == "process_user_message"

SmartEntry == "IntentBasedResponseSystem.process_user_message"

\* position of a step in initial < collecting_name < collecting_mobile <
\* collecting_details < processing
StepRank(step) ==
    CASE step = "initial" -> 0
      [] step = "collecting_name" -> 1
      [] step = "collecting_mobile" -> 2
      [] step = "collecting_details" -> 3
      [] step = "processing" -> 4

OrderedSteps == {"initial", "collecting_name", "collecting_mobile", "collecting_details",
                 "processing"}

NonDecreasing(steps) ==
    LET ordered == SelectSeq(steps, LAMBDA st : st \in OrderedSteps)
    IN \A i \in 1..(Len(ordered) - 1) : StepRank(ordered[i]) <= StepRank(ordered[i + 1])

\* the values current_step has in one context instance over a turn: before
\* the turn, those assigned during it and, when the context was not
\* replaced, after it
StepsOfTurn ==
    <<user_context.current_step>> \o turn'.steps
    \o (IF ctx_id' = ctx_id THEN <<user_context'.current_step>> ELSE <<>>)

\* a user message was processed in this step
MessageTurn == turn' # turn /\ turn'.op # "clear_chat"

\* C1: in the flow of process_user_message, current_step never moves to an
\* earlier position within one context instance
C1_StepMonotonic == [][entry = MainEntry => NonDecreasing(StepsOfTurn)]_vars

C1_Witness ==
    /\ entry = MainEntry
    /\ user_context.current_step = "collecting_details"
    /\ turn.op = "handle_registration_step"

\* C2: after a submission attempt, successful or failed, the session's
\* context is a fresh one: current_step initial and every slot unset
C2_FreshAfterTerminal ==
    turn.outcome \in {"success", "failure"} =>
        /\ user_context.current_step = "initial"
        /\ user_context.name = None
        /\ user_context.mobile = None
        /\ user_context.complaint_details = None

C2_Witness == turn.outcome = "failure" /\ turn.op = "register_final_complaint"

\* C3: no context instance is passed to register_complaint_api twice
C3_NoDoubleSubmit ==
    \A i, j \in 1..Len(api_calls) : i # j => api_calls[i] # api_calls[j]

C3_Witness == Len(api_calls) = 2 /\ turn.call # NoCall

\* texts with a valid name, a valid phone number and a description of at
\* least 10 characters in them
SampleNames == {"John Smith"}

SamplePhones == {"9876543210"}

SampleDescriptions == {"the elevator makes noise daily", "issue with my laptop"}

HasAllThree ==
    [t \in Texts |->
        \E n \in SampleNames, ph \in SamplePhones, d \in SampleDescriptions :
            /\ validate_name(n) /\ validate_mobile(ph) /\ Len(d) >= 10
            /\ Contains(t, n) /\ Contains(t, ph) /\ Contains(t, d)]

RegistrationIntents == {"register_complaint", "continue_registration"}

\* C4: from a fresh context, a message with a valid name, a valid phone and
\* a description of at least 10 characters, given to
\* handle_smart_registration, reaches processing in that turn
C4_SkipAhead ==
    [][(/\ entry = SmartEntry
        /\ MessageTurn
        /\ user_context = UserContext
        /\ intent' \in RegistrationIntents
        /\ HasAllThree[turn'.msg])
       => turn'.op = "process_complaint_registration"]_vars

SmartIntent ==
    [t \in Texts |-> [step \in Steps |->
        smart_intent_detection(t, [current_step |-> step]).intent]]

Scenario1 == "I have an issue with my laptop, my name is John Smith, number is 9876543210"

\* C5: from a fresh context the message of scenario 1 yields the name John
\* Smith and the mobile 9876543210, the intent register_complaint, and
\* leaves current_step at collecting_details
C5_Scenario1 ==
    [][(/\ entry \in {MainEntry, SmartEntry}
        /\ MessageTurn
        /\ user_context = UserContext
        /\ turn'.msg = Scenario1)
       => LET extracted == IF entry = MainEntry THEN UserInfo[Scenario1]
                           ELSE Info[Scenario1]
          IN /\ extracted.name = "John Smith"
             /\ extracted.mobile = "9876543210"
             /\ SmartIntent[Scenario1]["initial"] = "register_complaint"
             /\ intent' = "register_complaint"
             /\ user_context'.current_step = "collecting_details"]_vars

\* C6: in collecting_name the message "help" is rejected by
\* process_user_message: the name stays unset, the step stays collecting_name
C6_HelpRejected ==
    [][(/\ entry = MainEntry
        /\ MessageTurn
        /\ user_context.current_step = "collecting_name"
        /\ turn'.msg = "help")
       => /\ user_context'.name = None
          /\ user_context'.current_step = "collecting_name"]_vars

RegistrationHandlers ==
    {"handle_registration_step", "register_final_complaint", "handle_smart_registration",
     "handle_step_by_step_collection", "process_complaint_registration"}

\* C7: a message that arrives in a collecting state is classified as
\* continuing the registration and handled by the registration state
\* machine, whatever its keywords and the previous turn's intent
C7_MidRegistrationFirst ==
    [][(/\ entry \in {MainEntry, SmartEntry}
        /\ MessageTurn
        /\ user_context.current_step \in CollectingSteps)
       => /\ SmartIntent[turn'.msg][user_context.current_step] = "continue_registration"
          /\ turn'.op \in RegistrationHandlers
          /\ entry = SmartEntry => intent' = "continue_registration"]_vars

\* C8: in the flow of handle_smart_registration and
\* handle_step_by_step_collection, current_step never moves to an earlier
\* position within one context instance
C8_SmartStepMonotonic == [][entry = SmartEntry => NonDecreasing(StepsOfTurn)]_vars

C8_Witness ==
    /\ entry = SmartEntry
    /\ user_context.current_step = "collecting_details"
    /\ turn.op = "handle_step_by_step_collection"

\* C9: a turn of the smart flow whose slot input the validator rejects
\* leaves current_step and the three slots as they were and submits nothing
C9_RejectKeepsState ==
    [][(/\ entry = SmartEntry
        /\ MessageTurn
        /\ turn'.outcome = "rejected")
       => /\ user_context' = user_context
          /\ turn'.call = NoCall]_vars

\* C10: in collecting_mobile, process_user_message accepts exactly the
\* inputs with an optional '+', a first digit 1-9 and 10 to 15 digits; on
\* accept the mobile is set and the step is collecting_details, on reject
\* the mobile stays unset and the step stays collecting_mobile
C10_MobileAcceptedIffValid ==
    [][(/\ entry = MainEntry
        /\ MessageTurn
        /\ user_context.current_step = "collecting_mobile")
       => IF MobileValid[turn'.msg]
          THEN /\ Truthy(user_context'.mobile)
               /\ user_context'.current_step = "collecting_details"
          ELSE /\ user_context'.mobile = None
               /\ user_context'.current_step = "collecting_mobile"]_vars

\* C11: from initial with a slot still missing, handle_smart_registration
\* ends the turn in the collecting state of the first missing slot in the
\* order name, mobile, details, never in initial or collecting_info
C11_FirstMissingSlot ==
    [][(/\ entry = SmartEntry
        /\ MessageTurn
        /\ user_context.current_step = "initial"
        /\ intent' \in RegistrationIntents
        /\ ctx_id' = ctx_id)
       => /\ user_context'.current_step \notin {"initial", "collecting_info"}
          /\ user_context'.current_step =
                 IF ~Truthy(user_context'.name) THEN "collecting_name"
                 ELSE IF ~Truthy(user_context'.mobile) THEN "collecting_mobile"
                 ELSE "collecting_details"]_vars

C11_Witness ==
    /\ entry = SmartEntry
    /\ turn.op = "handle_smart_registration"
    /\ turn.steps = <<"collecting_info", "collecting_mobile">>
    /\ user_context.name = "John Smith"

Slots == {"name", "mobile", "complaint_details"}

\* C12: within one context instance a slot that holds a value is not
\* changed by the extraction from a later message
C12_SlotsKept ==
    [][(/\ entry \in {MainEntry, SmartEntry}
        /\ MessageTurn
        /\ ctx_id' = ctx_id)
       => \A slot \in Slots :
              Truthy(user_context[slot]) => user_context'[slot] = user_context[slot]]_vars

\* C13: at the end of every turn the session's context is in initial or in
\* a collecting state, never in processing or collecting_info, and a failed
\* submission leaves a context in initial
C13_NotStuck ==
    /\ user_context.current_step \in {"initial"} \cup CollectingSteps
    /\ turn.outcome = "failure" => user_context.current_step = "initial"

C13_Witness ==
    /\ entry = SmartEntry
    /\ turn.outcome = "failure"
    /\ turn.steps = <<"processing">>
    /\ turn.call.complaint_details # None

Details == [t \in Texts |-> extract_user_details(t)]

\* C14: outside a registration, a message from which a complaint identifier
\* was extracted gets the status check intent and goes to the status
\* lookup, whatever keywords it has: in detect_user_intent with
\* handle_intelligent_question, and in smart_intent_detection
C14_ComplaintIdFirst ==
    [][(/\ entry = MainEntry
        /\ MessageTurn
        /\ user_context.current_step \notin CollectingSteps)
       => /\ Truthy(UserInfo[turn'.msg].complaint_id) =>
                 /\ intent' = "check_status"
                 /\ turn'.op = "handle_intelligent_question"
                 /\ user_context' = user_context
          /\ Truthy(Details[turn'.msg].complaint_id) =>
                 SmartIntent[turn'.msg][user_context.current_step] = "check_status_by_id"]_vars

\* the oracle gave nothing usable: no client, a failed call, a content that
\* does not parse, or a parsed value outside the schema
OracleUnusable ==
    \/ ~client
    \/ llm_result.outcome.raises
    \/ ~json_loads(llm_result.outcome.content).ok
    \/ json_loads(llm_result.outcome.content).value.kind # "dict"
    \/ json_loads(llm_result.outcome.content).value.intent \notin LLMIntents
    \/ json_loads(llm_result.outcome.content).value.extracted_info.kind # "dict"

\* C15: extract_intent never raises and returns a mapping whose intent is
\* in the fixed set and whose extracted_info is a mapping; when the oracle
\* gave nothing usable the result is the rule-based fallback
C15_ExtractIntentValidated ==
    llm_result.called =>
        /\ ~llm_result.raised
        /\ llm_result.value.kind = "dict"
        /\ llm_result.value.intent \in LLMIntents
        /\ llm_result.value.extracted_info.kind = "dict"
        /\ OracleUnusable =>
               llm_result.value = FallbackIntent[llm_result.user_message][llm_result.current_step]

Min(a, b) == IF a < b THEN a ELSE b

\* C16: after n calls of update_memory the turn window holds the last
\* min(n, 5) turns, oldest first
C16_WindowIsLastFive ==
    LET n == memory.total_messages
        stack == memory.context_stack
    IN /\ Len(stack) = Min(n, StackLimit)
       /\ \A i \in DOMAIN stack :
              /\ stack[i].n = n - Len(stack) + i
              /\ stack[i].intent = memory.previous_intents[n - Len(stack) + i]
              /\ Sentiment[stack[i].user_message] =
                     memory.sentiment_history[n - Len(stack) + i]

C16_Witness ==
    /\ memory.total_messages > StackLimit
    /\ Len(memory.context_stack) = StackLimit
    /\ memory.context_stack[1].n = memory.total_messages - StackLimit + 1

\* C17: once user_profile.name, or user_profile.mobile, is set, no
\* update_memory call changes it
C17_ProfileFirstWriteWins ==
    [][/\ Truthy(memory.user_profile.name) =>
              memory'.user_profile.name = memory.user_profile.name
       /\ Truthy(memory.user_profile.mobile) =>
              memory'.user_profile.mobile = memory.user_profile.mobile]_vars

\* the latest call carried a name and a mobile that the profile did not take
C17_Witness ==
    /\ memory.context_stack # <<>>
    /\ LET latest == memory.context_stack[Len(memory.context_stack)].extracted_info
       IN /\ Truthy(latest.name) /\ memory.user_profile.name \notin {None, latest.name}
          /\ Truthy(latest.mobile) /\ memory.user_profile.mobile \notin {None, latest.mobile}

\* C18: dominant_sentiment is neutral for an empty history, else a label of
\* maximal count, and it is the same value on every call and in every run
C18_DominantSentimentStable ==
    (insights_result.called /\ insights_result.at = memory.total_messages) =>
        LET history == memory.sentiment_history
            dominant == insights_result.dominant_sentiment
        IN /\ history = <<>> => dominant = "neutral"
           /\ history # <<>> =>
                  \A l \in SentimentLabels : Count(history, l) <= Count(history, dominant)
           /\ \A order \in HashOrders : dominant_sentiment(history, order) = dominant

\* C19: find_relevant_context returns at most top_k entries, in
\* non-increasing order of similarity, each with a similarity above 0.3
C19_TopKSortedAboveThreshold ==
    (rag_result.called /\ rag_result.op = "find_relevant_context" /\ ~rag_result.raised) =>
        LET entries == rag_result.entries
        IN /\ Len(entries) <= rag_result.top_k
           /\ \A i \in 1..(Len(entries) - 1) :
                  entries[i].similarity_score >= entries[i + 1].similarity_score
           /\ \A i \in DOMAIN entries : entries[i].similarity_score > Threshold

\* C20: when the embedding model fails, find_relevant_context returns an
\* empty sequence and raises nothing, and get_contextual_response answers
\* with the generic acknowledgement
C20_EmbeddingFailureIsEmpty ==
    (rag_result.called /\ ~rag_result.encodes) =>
        /\ ~rag_result.raised
        /\ rag_result.entries = <<>>
        /\ rag_result.op = "get_contextual_response" => rag_result.response = GenericResponse

\* the status_history rows of one complaint, in insertion order
HistoryOf(complaint_id) ==
    SelectSeq(status_history, LAMBDA row : row.complaint_id = complaint_id)

\* every identifier a row of either table carries
StoredIds ==
    {complaints[i].complaint_id : i \in DOMAIN complaints}
        \cup {status_history[i].complaint_id : i \in DOMAIN status_history}

HistoryChained(history) ==
    /\ history # <<>> => history[1].old_status = None /\ history[1].new_status = Registered
    /\ \A i \in 2..Len(history) : history[i].old_status = history[i - 1].new_status

UpdateSucceeded == db_result.op = "update_complaint_status" /\ db_result.value = TRUE

\* C21: the status history of every complaint is a chain that starts with
\* (no old status, Registered), in which every later entry's old status is
\* the new status of the entry before it, and whose last new status is the
\* complaint's current status; a successful update_complaint_status
\* appends exactly one entry and leaves the earlier entries as they were
C21_HistoryIsAppendOnlyChain ==
    /\ [](\A complaint_id \in StoredIds :
             LET history == HistoryOf(complaint_id) IN
             /\ HistoryChained(history)
             /\ \A i \in RowsOf(complaint_id) :
                    /\ history # <<>>
                    /\ complaints[i].status = history[Len(history)].new_status)
    /\ [][(db_result'.called /\ UpdateSucceeded') =>
             /\ Len(status_history') = Len(status_history) + 1
             /\ SubSeq(status_history', 1, Len(status_history)) = status_history]_vars

C21_Witness ==
    /\ db_result.called /\ UpdateSucceeded
    /\ Len(HistoryOf(db_result.complaint_id)) = 3
    /\ Cardinality(StoredIds) = 2

\* CMP followed by 8 upper-case letters or digits
ComplaintIdShape(complaint_id) ==
    /\ Len(complaint_id) = 11
    /\ SubSeq(complaint_id, 1, 3) = "CMP"
    /\ \A i \in 4..11 : InStr(Ch(complaint_id, i), Upper \o Digits)

WellShapedIds == {complaint_id \in {GeneratedId[hex] : hex \in HexPrefixes} :
                     ComplaintIdShape(complaint_id)}

RegistrationCollided == db_result.op = "register_complaint" /\ db_result.raised

\* C22: no two stored complaints share a complaint_id, every stored
\* complaint_id is CMP followed by 8 upper-case alphanumeric characters,
\* and a registration whose generated identifier is stored already changes
\* neither table
C22_UniqueWellShapedIds ==
    /\ [](/\ \A i, j \in DOMAIN complaints :
                complaints[i].complaint_id = complaints[j].complaint_id => i = j
          /\ \A i \in DOMAIN complaints : complaints[i].complaint_id \in WellShapedIds)
    /\ [][(db_result'.called /\ RegistrationCollided') =>
             complaints' = complaints /\ status_history' = status_history]_vars

C22_Witness ==
    /\ db_result.called /\ RegistrationCollided
    /\ Len(complaints) = 2
    /\ \E i \in DOMAIN complaints : complaints[i].complaint_id = "CMP0A1B2C3D"

SearchReturned == db_result.op = "get_complaints_by_mobile"

\* the stored complaint's mobile is the cleaned argument of the search
ExactMatch(row) == row.mobile = CleanMobile[db_result.complaint_id]

\* C23: get_complaints_by_mobile returns no complaint twice, and when a
\* stored complaint's mobile equals the cleaned input, every such complaint
\* is in the result and none of them comes after a complaint that matched
\* in another way
C23_SearchDedupedExactFirst ==
    (db_result.called /\ SearchReturned) =>
        LET found == db_result.value IN
        /\ \A i, j \in DOMAIN found : found[i].complaint_id = found[j].complaint_id => i = j
        /\ \A r \in DOMAIN complaints :
               ExactMatch(complaints[r]) =>
                   /\ \E i \in DOMAIN found : found[i] = complaints[r]
                   /\ \A i, j \in DOMAIN found :
                          (i < j /\ ExactMatch(found[j])) => ExactMatch(found[i])

C23_Witness ==
    /\ db_result.called /\ SearchReturned
    /\ Len(db_result.value) = 1
    /\ ExactMatch(db_result.value[1])
    /\ \E r \in DOMAIN complaints : complaints[r].mobile = "+919876543210"

\* C24: update_complaint_status for an identifier no complaint carries
\* returns False and changes neither table
C24_UpdateUnknownIdChangesNothing ==
    [][(db_result'.called /\ db_result'.op = "update_complaint_status"
            /\ RowsOf(db_result'.complaint_id) = {}) =>
           /\ db_result'.value = FALSE
           /\ complaints' = complaints
           /\ status_history' = status_history]_vars

C24_Witness ==
    /\ db_result.called
    /\ db_result.op = "update_complaint_status"
    /\ db_result.value = FALSE
    /\ db_result.complaint_id = "cmp0a1b2c3d"
    /\ \E i \in DOMAIN complaints : complaints[i].complaint_id = "CMP0A1B2C3D"

\* the rows of a table that carry one identifier
RowsWith(table, complaint_id) == SelectSeq(table, LAMBDA row : row.complaint_id = complaint_id)

\* C25: delete_complaint returns True exactly when a complaint with the
\* identifier existed; after it the identifier has no complaint and no
\* history, every other complaint and its history are as before; and in
\* every reachable state each status_history row names a stored complaint
C25_DeleteRemovesOnlyThatComplaint ==
    /\ [](\A i \in DOMAIN status_history : RowsOf(status_history[i].complaint_id) # {})
    /\ [][(db_result'.called /\ db_result'.op = "delete_complaint") =>
             LET complaint_id == db_result'.complaint_id IN
             /\ db_result'.value = (RowsOf(complaint_id) # {})
             /\ RowsWith(complaints', complaint_id) = <<>>
             /\ RowsWith(status_history', complaint_id) = <<>>
             /\ \A other \in StoredIds \ {complaint_id} :
                    /\ RowsWith(complaints', other) = RowsWith(complaints, other)
                    /\ RowsWith(status_history', other) = RowsWith(status_history, other)]_vars

C25_Witness ==
    /\ db_result.called
    /\ db_result.op = "delete_complaint"
    /\ db_result.value = TRUE
    /\ Len(complaints) = 1
    /\ Len(status_history) = 2

\* C26: the category of every submission is the one categorize_complaint
\* infers from complaint_details, or "Other" when the session has no
\* categorizer, in every submission routine
C26_SubmittedCategoryIsInferred ==
    turn.call # NoCall =>
        \/ turn.call.category = categorize_complaint(turn.call.complaint_details)
        \/ turn.call.category = "Other" /\ ~llm_handler

\* C27: for a valid phone string of 10 to 15 digits, with or without '+'
\* and separators, bare or after plain words, extract_information returns
\* as mobile all the digits of the phone string
C27_MobileIsAllDigits ==
    (extract_result.called /\ extract_result.input.body \in Phones
        /\ extract_result.input.prefix \in PlainPrefixes) =>
        extract_result.extracted.mobile = FilterChars(extract_result.input.body, Digits, TRUE)

\* the message has an introduction phrase from which the patterns take a name
IntroducesName(user_message) ==
    /\ AnyIn(<<"i'm ", "i am ", "my name is ", "name is ", "call me ">>, lower(user_message))
    /\ PatternName(user_message, 1, None) # None

\* C28: when the whole trimmed message qualifies as a name and an
\* introduction phrase with name words is found in it too, the name
\* returned is the whole message, each word capitalized
C28_WholeMessageNameFirst ==
    (extract_result.called
        /\ WholeMessageName(strip(extract_result.user_message)) # None
        /\ IntroducesName(extract_result.user_message)) =>
        extract_result.extracted.name = WholeMessageName(strip(extract_result.user_message))

\* the complaint identifier the message was built with, if any
IdentifierOf(input) ==
    IF input.prefix \in DOMAIN IdOfPrefix THEN IdOfPrefix[input.prefix]
    ELSE IF input.body \in {"CMP1234567890", "CMP12345678"} THEN input.body
    ELSE None

\* the digits of the message that are not in its complaint identifier
DigitsOutsideIdentifier(input) ==
    IF input.prefix \in DOMAIN IdOfPrefix
    THEN FilterChars(input.body \o input.suffix, Digits, TRUE)
    ELSE ""

\* C29: in a message with a complaint identifier, the mobile returned, if
\* any, is made of digits outside the identifier, and the complaint_id
\* returned is the identifier, whatever phone number the message has
C29_MobileNotFromIdentifier ==
    (extract_result.called /\ IdentifierOf(extract_result.input) # None) =>
        /\ extract_result.extracted.mobile # None =>
               Contains(DigitsOutsideIdentifier(extract_result.input),
                        extract_result.extracted.mobile)
        /\ extract_result.extracted.complaint_id = IdentifierOf(extract_result.input)

\* what the claim calls the state of a session: its context, its message
\* list and its conversation memory
SessionView(s) ==
    IF s = active
    THEN [user_context |-> user_context, messages |-> messages, memory |-> memory]
    ELSE [user_context |-> parked[s].user_context, messages |-> parked[s].messages,
          memory |-> parked[s].memory]

\* C30: a step changes the context, the message list and the conversation
\* memory of no session but the one whose turn it is, whatever the order
\* in which the sessions take their turns
C30_SessionsIndependent ==
    [][\A s \in SessionIds :
           (s # active \/ active' # active) => SessionView(s)' = SessionView(s)]_vars

C30_Witness ==
    /\ active = 1
    /\ Len(messages) = 4
    /\ Len(parked[2].messages) = 2
    /\ user_context.current_step # parked[2].user_context.current_step
    /\ memory # parked[2].memory

\* the slot validators applied to the arguments of a submission
SlotsValid(call) ==
    /\ validate_name(call.name)
    /\ validate_mobile(call.mobile)
    /\ Len(strip(call.complaint_details)) >= 10

\* C31: every complaint the registration flows pass to
\* register_complaint_api has a name validate_name accepts, a mobile
\* validate_mobile accepts and details of trimmed length at least 10
C31_SubmittedSlotsValid ==
    (entry \in {MainEntry, SmartEntry} /\ turn.call # NoCall) => SlotsValid(turn.call)

\* the message is a valid value for the slot the step asks for
ValidAnswer(step, msg) ==
    CASE step = "collecting_name" -> NameValid[msg]
      [] step = "collecting_mobile" -> MobileValid[msg]
      [] step = "collecting_details" -> Len(StripOf[msg]) >= 10
      [] OTHER -> FALSE

\* the latest turn was a registration turn that ended with a prompt
Prompted == turn.op \in RegistrationHandlers /\ turn.outcome = "prompt"

\* C32: in IntentBasedResponseSystem.process_user_message, after a prompt
\* of the registration, an answer valid for the requested slot is handled
\* by the registration state machine and accepted, and a valid description
\* is followed by a submission attempt in the same turn
C32_ValidAnswersReachSubmission ==
    [][(/\ entry = SmartEntry
        /\ MessageTurn
        /\ Prompted
        /\ user_context.current_step \in CollectingSteps
        /\ ValidAnswer(user_context.current_step, turn'.msg))
       => /\ turn'.op \in RegistrationHandlers
          /\ turn'.outcome \in {"prompt", "success", "failure"}
          /\ user_context.current_step = "collecting_details" => turn'.call # NoCall]_vars

SimpleEntry == "handle_simple_registration"

\* C34: in the flow of handle_simple_registration, current_step never moves
\* to an earlier position within one context instance, and an answer valid
\* for the slot of the current collecting state moves the flow on: to a
\* later state, or to process_final_registration
C34_SimpleRegistrationProgress ==
    [][(entry = SimpleEntry /\ MessageTurn)
       => /\ NonDecreasing(StepsOfTurn)
          /\ (/\ user_context.current_step \in CollectingSteps
              /\ ValidAnswer(user_context.current_step, turn'.msg))
             => \/ turn'.op = "process_final_registration"
                \/ StepRank(user_context'.current_step)
                       > StepRank(user_context.current_step)]_vars

\* the message the user typed in turn k of the chat and the answer to it
Typed(k) == messages[2 * k - 1].content

Answered(k) == messages[2 * k].content

\* the chat so far is a request to register, a valid name, a valid phone
\* and a description of at least 10 characters, each of them processed
RegistrationScript ==
    /\ Len(messages) = 8
    /\ \A k \in 1..4 : Answered(k) # "unavailable"
    /\ UserIntent[StripOf[Typed(1)]] = "register_complaint"
    /\ NameValid[Typed(2)]
    /\ MobileValid[Typed(3)]
    /\ Len(StripOf[Typed(4)]) >= 10

\* the script led to one submission attempt, made in the turn of the
\* description, with the typed name, the digits of the typed phone and the
\* typed description
SubmittedOnceAsTyped ==
    /\ \A k \in 1..3 : Answered(k) \notin {"success", "failure"}
    /\ Answered(4) \in {"success", "failure"}
    /\ turn.call.name = StripOf[Typed(2)]
    /\ turn.call.mobile = DigitsOf[Typed(3)]
    /\ turn.call.complaint_details = StripOf[Typed(4)]

\* C35 as stated: in the flow of process_user_message a request to
\* register, a valid name, a valid phone and a description, typed in
\* consecutive turns, lead to exactly one submission attempt, made in the
\* turn of the description, with exactly those three values
C35_ScriptSubmitsOnce ==
    (entry = MainEntry /\ RegistrationScript) => SubmittedOnceAsTyped

\* C35: the same, for a request to register from which extract_user_info
\* takes no name, so that the flow asks for the name
C35_ScriptFromNamePromptSubmitsOnce ==
    (entry = MainEntry /\ RegistrationScript /\ ~Truthy(UserInfo[StripOf[Typed(1)]].name))
        => SubmittedOnceAsTyped

C35_Witness ==
    /\ entry = MainEntry
    /\ RegistrationScript
    /\ ~Truthy(UserInfo[StripOf[Typed(1)]].name)
    /\ Typed(3) = "+919876543210"
    /\ Answered(4) = "success"
    /\ turn.call.mobile = "919876543210"

\* C38: a step that is not a call of update_memory leaves every field of
\* the conversation memory as it was: analyze_conversation_context,
\* get_contextual_response and get_contextual_insights only read it
C38_ReadersLeaveMemory ==
    [][memory'.total_messages = memory.total_messages => memory' = memory]_vars

\* the progression Registered -> In Progress -> Under Review -> Resolved
Progression == <<"Registered", "In Progress", "Under Review", "Resolved">>

\* the statuses in which simulate_status_update changes nothing
SettledStatuses == {"Resolved", "Closed", "Rejected"}

\* the status_history rows that simulate_status_update wrote for a complaint
DemoRows(complaint_id) ==
    SelectSeq(HistoryOf(complaint_id),
              LAMBDA row : row.notes = "Status updated automatically for demo")

\* the status of the stored complaint
StatusOf(complaint_id) == get_complaint_by_id(complaint_id).status

\* C37: a call of simulate_status_update on a stored complaint moves its
\* status one step along Registered -> In Progress -> Under Review ->
\* Resolved and appends exactly one history entry for that step; on a
\* complaint that is Resolved, Closed or Rejected it changes nothing and
\* appends nothing; a complaint that only simulate_status_update has
\* touched is at the position of the progression given by the number of
\* calls, Resolved after three, and stays there
C37_SimulateAdvancesOneStep ==
    /\ [](\A complaint_id \in StoredIds :
             Len(HistoryOf(complaint_id)) = Len(DemoRows(complaint_id)) + 1 =>
                 /\ Len(DemoRows(complaint_id)) <= 3
                 /\ StatusOf(complaint_id) = Progression[Len(DemoRows(complaint_id)) + 1])
    /\ [][(api_result' # api_result /\ api_result'.status_code = 200) =>
             LET complaint_id == api_result'.complaint_id
                 current_status == StatusOf(complaint_id)
             IN IF current_status \in SettledStatuses
                THEN /\ complaints' = complaints
                     /\ status_history' = status_history
                ELSE /\ \E k \in 1..3 :
                            /\ current_status = Progression[k]
                            /\ api_result'.new_status = Progression[k + 1]
                     /\ \A i \in DOMAIN complaints :
                            complaints[i].complaint_id = complaint_id =>
                                complaints'[i].status = api_result'.new_status
                     /\ status_history' = Append(status_history,
                            [complaint_id |-> complaint_id, old_status |-> current_status,
                             new_status |-> api_result'.new_status,
                             notes |-> "Status updated automatically for demo"])
                     /\ \A i \in DOMAIN complaints :
                            complaints[i].complaint_id # complaint_id =>
                                complaints'[i] = complaints[i]]_vars

\* three calls took a complaint from Registered to Resolved, and a fourth
\* call has left it there
C37_Witness ==
    /\ api_result.called
    /\ api_result.status_code = 200
    /\ api_result.old_status = "Resolved"
    /\ api_result.new_status = "Resolved"
    /\ Len(DemoRows(api_result.complaint_id)) = 3
    /\ Len(HistoryOf(api_result.complaint_id)) = 4
    /\ StatusOf(api_result.complaint_id) = "Resolved"

\* the calls of register_complaint_api that returned success False
FailedAttempts == {i \in DOMAIN requests : requests[i].client = "failure"}

\* C33: when register_complaint_api returned success False (connection
\* error, status other than 200, or timeout), the store holds no complaint
\* of that attempt, and so the store never holds more complaints than
\* there are attempts that did not fail
C33_FailureStoresNothing ==
    /\ \A i \in FailedAttempts :
           \/ requests[i].complaint_id = None
           \/ RowsOf(requests[i].complaint_id) = {}
    /\ Len(complaints) <= Len(requests) - Cardinality(FailedAttempts)

\* the part of C33 that holds: an attempt answered with a status other
\* than 200, or never delivered, stored nothing
C33_AnsweredFailureStoresNothing ==
    \A i \in FailedAttempts :
        requests[i].server \in {"raised", "unreachable"} =>
            requests[i].complaint_id = None

\* C36: under every interleaving of the statements of update_complaint_status
\* and delete_complaint calls on their own connections, no committed
\* status_history row belongs to a complaint that is not in complaints,
\* and the old_status of the row an update commits is the status the
\* complaint had when the update took effect
C36_HistoryConsistentUnderInterleaving ==
    /\ [](\A i \in DOMAIN status_history :
             RowsOf(status_history[i].complaint_id) # {})
    /\ [][\A c \in Connections :
             (connections[c].pc = "commit_update" /\ connections'[c].pc = "idle") =>
                 /\ RowsOf(connections[c].complaint_id) # {}
                 /\ connections[c].old_status = StatusOf(connections[c].complaint_id)]_vars

\* the second part alone: the old_status an update commits is the status
\* the complaint had
C36_OldStatusIsCurrent ==
    [][\A c \in Connections :
         (connections[c].pc = "commit_update" /\ connections'[c].pc = "idle"
              /\ RowsOf(connections[c].complaint_id) # {}) =>
             connections[c].old_status = StatusOf(connections[c].complaint_id)]_vars

====
